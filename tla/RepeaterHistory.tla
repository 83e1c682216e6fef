-------------------------- MODULE RepeaterHistory --------------------------
(***************************************************************************)
(* The repeater with a memory of what its badge has heard, to state the    *)
(* edge rule: a badge stands for a hop only if that hop is vacant where it *)
(* is.  heard is the set of copies heard so far and inverted the frames of *)
(* which some copy came in after one from further out.                     *)
(***************************************************************************)
EXTENDS Repeater

VARIABLES heard, inverted

historyVars == <<repeater, heard, inverted>>

HInit == RepeaterInit /\ heard = {} /\ inverted = {}

HearFrame(f) ==
  /\ AdmitFrame(f)
  /\ heard' = heard \cup {f}
  /\ inverted' =
       inverted \cup {g.key : g \in {c \in heard : c.key = f.key /\ c.hop > f.hop}}

HNext ==
  \/ \E f \in Frames : HearFrame(f)
  \/ (RepeaterTick \/ RepeaterElapse) /\ UNCHANGED <<heard, inverted>>

HSpec == HInit /\ [][HNext]_historyVars

-----------------------------------------------------------------------------
(***************************************************************************)
(* The hop memory has room for every frame that is ever heard.             *)
(***************************************************************************)
MemoryHoldsAll ==
  /\ IsFiniteSet(Keys \ Unsequenced)
  /\ Cardinality(Keys \ Unsequenced) <= RECENT_HOP_MEMORY_SIZE

(***************************************************************************)
(* As long as the hop memory has room for all, a sequenced frame has       *)
(* at most one watch, and that at the lowest hop it was ever heard at: a   *)
(* badge never stands for an outer hop over a frame it also hears closer   *)
(* to the source, in whatever order the copies arrive.                     *)
(***************************************************************************)
WatchAtLowestHop ==
  MemoryHoldsAll =>
    \A i \in DOMAIN repeater.watches :
      LET w == repeater.watches[i]
      IN  w.key \notin Unsequenced =>
            /\ \E g \in heard : g.key = w.key /\ g.hop = w.hop
            /\ \A g \in heard : g.key = w.key => w.hop <= g.hop
            /\ \A j \in DOMAIN repeater.watches :
                 repeater.watches[j].key = w.key => j = i

(***************************************************************************)
(* The watches that put a badge forward: those past their deadline at the  *)
(* hop below the one it stands for.                                        *)
(***************************************************************************)
Vacancies(r, hop) ==
  {w \in {r.watches[i] : i \in DOMAIN r.watches} : w.left = 0 /\ w.hop + 1 = hop}

Standing == repeater.state = LISTENING /\ repeater'.state = CANDIDATE

StandsAtVacantHop ==
  \E w \in Vacancies(repeater, repeater'.output_hop) :
    ~ \E g \in heard : g.key = w.key /\ (g.hop = w.hop + 1 \/ g.hop < w.hop)

(***************************************************************************)
(* The edge rule: a badge that begins to stand for a hop has not heard the *)
(* frame it stands for at that very hop, nor closer to the source.  It     *)
(* holds for every frame whose copies come in from the inner hops to the   *)
(* outer ones, whatever is repeated, lost, late or interleaved with other  *)
(* frames, as long as the hop memory has room for all; a copy that comes   *)
(* in after one from further out is watched for anew, as is every copy of  *)
(* a frame without a sequence number, and the rule extends to neither.     *)
(***************************************************************************)
EdgeRuleInOrder ==
  [][/\ MemoryHoldsAll
     /\ Standing
     /\ \A w \in Vacancies(repeater, repeater'.output_hop) :
          w.key \notin inverted \cup Unsequenced
     => StandsAtVacantHop]_historyVars

=============================================================================
