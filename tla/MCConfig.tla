------------------------------ MODULE MCConfig ------------------------------
EXTENDS Config, TLC

CONSTANTS a1, a2, o1, o2, g1, g2

\* Nothing; only a control socket, of another data dir; a control socket as the enrollment
\* socket; that data dir, with the enrollment socket of the user layout.
MCKeySets ==
  {NoKeys,
   [NoKeys EXCEPT !.control = Sock("d", "control")],
   [NoKeys EXCEPT !.enroll = Sock("system", "control")],
   [NoKeys EXCEPT !.dir = "d", !.enroll = Sock("user", "enroll")]}

Row(type, account, agent) == [type |-> type, account |-> account, agent |-> agent]

\* A foreign route, a row that is no route, and an account that is routed already.
MCRows ==
  {<<Row("route", Other, g2), Row("acp", a2, g1), Row("route", a1, g1)>>}

Swaps == Permutations({o1, o2})
=============================================================================
