----------------------------- MODULE MCRelayStart -----------------------------
(* A deploy secret from up to three sources, a few write tokens, and       *)
(* two incarnations.                                                       *)
EXTENDS RelayStart

Text(prefix, spaced, len, id) ==
  [edge |-> FALSE, prefix |-> prefix, spaced |-> spaced, digits |-> TRUE, len |-> len, id |-> id]
Good1 == Text("hex", FALSE, 2, 1)
Good2 == Text("b64", FALSE, 2, 2)
Spaced == Text("b64", TRUE, 2, 3)
Short == Text("hex", FALSE, 1, 4)
Bare == Text("none", FALSE, 2, 5)

Given(fd, canonical, legacy, argv) ==
  [s \in Sources |-> CASE s = "fd" -> fd [] s = "canonical" -> canonical
                       [] s = "legacy" -> legacy [] OTHER -> argv]
MCSecrets ==
  {Given(f, c, l, NoValue) : f \in {NoValue, Good1, EmptyText}, c \in {NoValue, Good1, Spaced, Short},
                             l \in {NoValue, Good2, Bare}}
MCTokens ==
  {Given(NoValue, NoValue, NoValue, NoValue), Given(NoValue, NoValue, NoValue, Good1),
   Given(NoValue, Short, Good1, NoValue), Given(Good1, NoValue, Good2, Good2),
   Given(EmptyText, Good2, NoValue, NoValue)}
\* The two are resolved apart, so one varies while the other is as it should be.
MCConfs ==
  [secret : MCSecrets, token : {Given(NoValue, Good1, NoValue, NoValue)}, localOnly : {FALSE},
   unix : {TRUE}, linux : {TRUE}]
  \cup [secret : {Given(NoValue, Good1, NoValue, NoValue)}, token : MCTokens,
          localOnly : BOOLEAN, unix : BOOLEAN, linux : BOOLEAN]
===============================================================================
