--------------------------- MODULE MCServerConfig ---------------------------
(***************************************************************************)
(* Instances of ServerConfig for TLC: two ports of different length, the   *)
(* default directory and another one.                                      *)
(***************************************************************************)
EXTENDS ServerConfig

CONSTANTS LongPort, OtherDir

MCPort == {DefaultPort, LongPort}
MCDir == {DefaultDir, OtherDir}
MCLength == [x \in MCPort \cup MCDir |-> IF x = LongPort THEN 2 ELSE 1]

Form(d, p, dir) == [domainPort |-> d, port |-> p, dir |-> dir]
MCForms == {Form(None, LongPort, None), Form(LongPort, DefaultPort, OtherDir),
            Form(None, DefaultPort, OtherDir), Form(Wrong, LongPort, DefaultDir),
            Form(None, Wrong, DefaultDir)}

MCFlags == {[port |-> None, dir |-> None], [port |-> LongPort, dir |-> None],
            [port |-> None, dir |-> OtherDir]}
NoFlags == {[port |-> None, dir |-> None]}
=============================================================================
