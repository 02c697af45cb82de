------------------------------- MODULE Arena -------------------------------
(***************************************************************************)
(* What a workspace promises its clients, with none of its machinery: a    *)
(* request is answered in one step with memory of the requested length     *)
(* that lies in a live block and that nobody else holds, or it is refused; *)
(* all memory is given back together, between requests; and blocks come    *)
(* and go only as far as nobody notices.                                   *)
(***************************************************************************)
EXTENDS Integers

CONSTANTS
  Clients,
  Sizes    \* lengths a client may ask for

VARIABLES
  asked,  \* asked[c]: bytes c is waiting for, 0 when it waits for none
  held,   \* the regions clients hold
  live    \* the blocks regions may lie in

arenaVars == <<asked, held, live>>

Apart(r, s) == r.blk # s.blk \/ r.from + r.len <= s.from \/ s.from + s.len <= r.from
Within(r, b) == b.id = r.blk /\ r.from + r.len <= b.size
Backed(blocks) == \A r \in held : \E b \in blocks : Within(r, b)

Init == asked = [c \in Clients |-> 0] /\ held = {}

Ask(c, n) ==
  /\ asked[c] = 0 /\ n > 0
  /\ asked' = [asked EXCEPT ![c] = n]
  /\ UNCHANGED <<held, live>>

Grant(c) ==
  \E b \in live : \E from \in 0..b.size :
     LET r == [who |-> c, blk |-> b.id, from |-> from, len |-> asked[c]]
     IN  /\ asked[c] > 0
         /\ Within(r, b) /\ \A s \in held : Apart(r, s)
         /\ held' = held \cup {r}
         /\ asked' = [asked EXCEPT ![c] = 0]
         /\ UNCHANGED live

\* malloc has failed
Refuse(c) ==
  /\ asked[c] > 0
  /\ asked' = [asked EXCEPT ![c] = 0]
  /\ UNCHANGED <<held, live>>

GiveBack ==
  /\ \A c \in Clients : asked[c] = 0
  /\ held' = {}
  /\ UNCHANGED <<asked, live>>

\* Blocks are added, and blocks nobody's memory lies in are taken away.
Relocate ==
  /\ Backed(live')
  /\ UNCHANGED <<asked, held>>

Next ==
  \/ \E c \in Clients : Grant(c) \/ Refuse(c) \/ \E n \in Sizes : Ask(c, n)
  \/ GiveBack
  \/ Relocate

Spec == Init /\ [][Next]_arenaVars

\* Every request is answered.
FairSpec == Spec /\ \A c \in Clients : WF_arenaVars(Grant(c) \/ Refuse(c))
===========================================================================
