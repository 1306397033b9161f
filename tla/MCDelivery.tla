------------------------------ MODULE MCDelivery ------------------------------
(* Small instances of Delivery. *)
EXTENDS Delivery

CONSTANTS m1, m2, r1, r2

Setup(s, r, q, sent, strict, interval, stops, until) ==
  [sender |-> s, receiver |-> r, relay |-> q,
   sent |-> sent, strict |-> strict, interval |-> interval, stops |-> stops,
   until |-> until]

\* one message, two receivers that both ask, clocks that agree; the relay may stop, or time pass
Contended == {Setup(0, 0, 0, {m1}, {r1}, 1, TRUE, 3), Setup(0, 0, 0, {m1}, {r1}, 1, FALSE, 4)}
\* sender and receiver a bucket apart either way, or both an hour behind the relay, with two
\* messages or with one and more time; r2 refuses to ask
Around == {Setup(c[1], c[2], c[3], s[1], {r1, r2}, 1, FALSE, s[2]) :
             c \in {<<1, 0, 1>>, <<0, 1, 1>>, <<0, 0, 2>>},
             s \in {<<{m1, m2}, 4>>, <<{m1}, 5>>, <<{m2}, 5>>}}
PairSetups == Contended \cup Around

\* for HourEitherWay: a sender one tick ahead of the relay
SenderAhead == {Setup(1, 0, 0, {m1}, {}, 1, FALSE, 5)}

Watching(s, r, q, interval) == Setup(s, r, q, {m1}, {}, interval, FALSE, MaxTime)
\* a watching receiver behind the sender by two buckets, ahead of it by one tick, or with the
\* same clock, and intervals that leave some room in two buckets for slow requests, or none
WatchSetups == {Watching(4, 0, 4, 2), Watching(0, 1, 0, 1), Watching(0, 0, 1, 4)}
===============================================================================
