------------------------------ MODULE MCShell ------------------------------
(* A screen of a few cells, a prompt and outputs of a few characters.       *)
EXTENDS Shell

MCBanner == << Newline, "a", Newline >>
MCPrompt == << "%" >>
MCOutputs == {<< >>, << "a" >>, << "ctl", Newline, "b" >>}

=============================================================================
