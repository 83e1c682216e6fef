-------------------------------- MODULE Mesh --------------------------------
(***************************************************************************)
(* Several badges with Repeat on around one Director in session, each with *)
(* the repeater of DynamicRepeater.  A frame on the air reaches every      *)
(* badge in range of its sender: the interrupt handler relays it at once   *)
(* if its gate is open at that hop, and the receive loop takes it from the *)
(* queue later.                                                            *)
(*                                                                         *)
(* A unit of time is a second.  In it the Director emits one frame, an     *)
(* effect or a heartbeat; all copies of the frame come out of the air and  *)
(* of the queues (PEER_WATCH_MS is chosen so), in any order between the    *)
(* badges; and the loop of every badge sweeps once.  Nothing is lost on    *)
(* the way: what may fail is the mesh itself, when badges move or are      *)
(* switched off.                                                           *)
(***************************************************************************)
EXTENDS DynamicRepeater, DedupRing, FiniteSets

CONSTANTS
  Badges,
  Director,
  REDUNDANCY,   \* copies the Director sends of an effect, 3 in the code
  Topologies,   \* each a set of pairs of stations in range of each other
  MaxMoves      \* bound on the changes between them; not part of the code

Stations == Badges \cup {Director}

ASSUME MeshAssumption ==
  /\ Keys = 0 .. Cardinality(Keys) - 1 /\ Unsequenced = {}
  /\ Director \notin Badges
  /\ \A topology \in Topologies : topology \subseteq SUBSET Stations
  /\ REDUNDANCY \in Nat \ {0} /\ MaxMoves \in Nat

VARIABLES
  topology,  \* which stations hear each other
  air,       \* for each station, the copies it has sent and nobody has yet
  pending,   \* for each badge, the frames its handler has queued
  fsm, seen, \* for each badge, its repeater and its deduplication ring
  swept,     \* the badges whose loop has swept in this unit of time
  last,      \* the number of the Director's last frame
  sent,      \* it was sent in this unit of time
  moves,     \* the changes of the topology so far
  (* History, for the properties below. *)
  unserved,  \* for each badge, the frames in a row that it was in range to
             \* hear and nobody around it, nor the badge itself, relayed
  crowded,   \* the frames in a row while two badges in range of each other
             \* were on duty at the same hop
  misled     \* the badges that took a peer for gone meanwhile

badgeVars == <<pending, fsm, seen>>
history == <<unserved, crowded, misled>>
vars == <<topology, air, badgeVars, swept, last, sent, moves, history>>

(***************************************************************************)
(* The bounds the properties state, in frames of the Director.  To fill a  *)
(* vacancy takes one frame to see it, the idle time-out of a badge elected *)
(* for a role that is no longer any, and two candidacies: the one for that *)
(* role and the one for the vacant one.  In a cooldown a badge hears each  *)
(* frame from the Director and from its peer, so it counts two a frame.    *)
(***************************************************************************)
VACANCY == ACTIVE_IDLE_TIMEOUT + 2 * Max(CANDIDATE_FRAMES) + 1
CONTENTION == Max(COOLDOWN_FRAMES) \div 2 + 2

(***************************************************************************)
(* A count that is held where a property would have noticed.               *)
(***************************************************************************)
CountUpTo(n, bound) == IF n <= bound THEN n + 1 ELSE n

Init ==
  /\ topology \in Topologies
  /\ air = [s \in Stations |-> <<>>]
  /\ pending = [b \in Badges |-> <<>>]
  /\ fsm = [b \in Badges |-> NewRepeater(Closed)]
  /\ seen = [b \in Badges |-> <<>>]
  /\ swept = {} /\ last = 0 /\ sent = FALSE /\ moves = 0
  /\ unserved = [b \in Badges |-> 0] /\ crowded = 0 /\ misled = {}

(***************************************************************************)
(* No copy is on its way; two stations are in range; two badges are on     *)
(* duty together.                                                          *)
(***************************************************************************)
Quiet == (\A s \in Stations : air[s] = <<>>) /\ (\A b \in Badges : pending[b] = <<>>)

Hears(b, station) == {b, station} \in topology

Together(b, c) ==
  /\ b # c /\ Hears(b, c)
  /\ fsm[b].gate.enabled /\ fsm[c].gate = fsm[b].gate

Crowded == \E b, c \in Badges : Together(b, c)

-----------------------------------------------------------------------------
(***************************************************************************)
(* The Director's loop emits a frame under a number of its own: a          *)
(* heartbeat in one copy or an effect in several.                          *)
(***************************************************************************)
Copies(key, n) == [i \in 1 .. n |-> [key |-> key, hop |-> 0]]

Send ==
  /\ Quiet /\ ~sent
  /\ sent' = TRUE
  /\ last' = (last + 1) % Cardinality(Keys)
  /\ \E n \in {1, REDUNDANCY} : air' = [air EXCEPT ![Director] = Copies(last', n)]
  /\ unserved' = [b \in Badges |->
       IF Hears(b, Director) THEN CountUpTo(unserved[b], VACANCY) ELSE unserved[b]]
  /\ crowded' = IF Crowded THEN CountUpTo(crowded, CONTENTION) ELSE 0
  /\ misled' = IF Crowded THEN misled ELSE {}
  /\ UNCHANGED <<topology, badgeVars, swept, moves>>

(***************************************************************************)
(* A copy reaches the interrupt handlers of the badges in range: each      *)
(* queues it, and relays it if it comes one hop short of the gate's.  The  *)
(* handler keeps no record: it relays every copy.                          *)
(***************************************************************************)
RelaysAt(b, f) == fsm[b].gate.enabled /\ f.hop + 1 = fsm[b].gate.hop

Deliver(s) ==
  /\ air[s] # <<>>
  /\ LET f        == Head(air[s])
         reached  == {b \in Badges : Hears(b, s)}
         relaying == {b \in reached : RelaysAt(b, f)}
         served   == {b \in Badges : b \in relaying \/ \E r \in relaying : Hears(b, r)}
     IN  /\ pending' = [b \in Badges |->
              IF b \in reached THEN Append(pending[b], f) ELSE pending[b]]
         /\ air' = [t \in Stations |->
              IF t = s THEN Tail(air[s])
              ELSE IF t \in relaying THEN Append(air[t], [f EXCEPT !.hop = @ + 1])
              ELSE air[t]]
         /\ unserved' = [b \in Badges |->
              IF f.hop = 0 /\ b \in served THEN 0 ELSE unserved[b]]
  /\ UNCHANGED <<topology, fsm, seen, swept, last, sent, moves, crowded, misled>>

-----------------------------------------------------------------------------
(***************************************************************************)
(* A badge's receive loop takes a frame out of its queue.  The repeater    *)
(* sees duplicates too.                                                    *)
(***************************************************************************)
LoopTakes(b) ==
  /\ pending[b] # <<>>
  /\ LET f == Head(pending[b])
     IN  /\ \E candidacy \in CANDIDATE_FRAMES, cooldown \in COOLDOWN_FRAMES :
              fsm' = [fsm EXCEPT ![b] = OnAdmittedFrame(@, f, IsSeen(seen[b], f.key), TRUE,
                                                        candidacy, cooldown)]
         /\ seen' = [seen EXCEPT ![b] = Remember(@, f.key)]
  /\ pending' = [pending EXCEPT ![b] = Tail(@)]
  /\ misled' = IF fsm[b].state = COOLDOWN /\ fsm'[b].state = ACTIVE
                  /\ \E c \in Badges : Together(b, c)
               THEN misled \cup {b} ELSE misled
  /\ UNCHANGED <<topology, air, swept, last, sent, moves, unserved, crowded>>

(***************************************************************************)
(* The loop's sweep, which follows the frames of its pass.                 *)
(***************************************************************************)
LoopSweeps(b) ==
  /\ b \notin swept /\ pending[b] = <<>>
  /\ \E candidacy \in CANDIDATE_FRAMES :
       fsm' = [fsm EXCEPT ![b] = TickRepeater(@, candidacy)]
  /\ swept' = swept \cup {b}
  /\ UNCHANGED <<topology, air, pending, seen, last, sent, moves, history>>

(***************************************************************************)
(* A unit of time ends.                                                    *)
(***************************************************************************)
Elapse ==
  /\ Quiet /\ sent /\ swept = Badges
  /\ fsm' = [b \in Badges |-> Age(fsm[b])]
  /\ swept' = {} /\ sent' = FALSE
  /\ UNCHANGED <<topology, air, pending, seen, last, moves, history>>

(***************************************************************************)
(* Badges move, or are switched off; the histories start anew.             *)
(***************************************************************************)
Move ==
  /\ Quiet /\ moves < MaxMoves
  /\ topology' \in Topologies \ {topology}
  /\ moves' = moves + 1
  /\ unserved' = [b \in Badges |-> 0] /\ crowded' = 0 /\ misled' = {}
  /\ UNCHANGED <<air, badgeVars, swept, last, sent>>

Next ==
  \/ Send
  \/ \E s \in Stations : Deliver(s)
  \/ \E b \in Badges : LoopTakes(b) \/ LoopSweeps(b)
  \/ Elapse
  \/ Move

Spec == Init /\ [][Next]_vars

-----------------------------------------------------------------------------
(***************************************************************************)
(* Coverage.  Wherever the badges stand or go, one that hears the Director *)
(* never goes more than VACANCY of its frames without a relay by itself or *)
(* by a badge it hears: nobody steps down for a peer that does not relay,  *)
(* two that contend do not both give up for good, and a badge left over    *)
(* with a role further out comes back for the one that is vacant.          *)
(***************************************************************************)
VacancyIsShort == \A b \in Badges : unserved[b] <= VACANCY

(***************************************************************************)
(* Contention.  Two badges within range of each other are on duty at the   *)
(* same hop for at most CONTENTION frames, unless one of them has taken    *)
(* the other for gone.                                                     *)
(***************************************************************************)
DoubleDutyIsShort == misled = {} => crowded <= CONTENTION

(***************************************************************************)
(* README.md, example 5, says of two badges at the same edge: "Whichever's *)
(* random cooldown counter expires first while the other is still active   *)
(* drops back to LISTEN; the other continues as REPEAT."  Not so while     *)
(* effects are sent: a cooldown counts copies, not frames, and the three   *)
(* copies of one effect that come in before the peer's relays of them      *)
(* already make COOLDOWN_PEER_STOPPED_FRAMES.                              *)
(***************************************************************************)
ContentionIsSettled == crowded <= CONTENTION

=============================================================================
