------------------------------- MODULE MCInputs -------------------------------
(* Every invocation, and every input of at most MaxScript bytes.           *)
EXTENDS Inputs

CONSTANT MaxScript

MCBytes == {"a", "b", CR, LF}
MCScripts == UNION {[1 .. n -> MCBytes] : n \in 0 .. MaxScript}
MCWords == {<<>>, <<"a">>, <<"b">>}
MCEnvValue == <<"a">>
MCConfs == Conf
===============================================================================
