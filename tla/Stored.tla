------------------------------- MODULE Stored -------------------------------
(***************************************************************************)
(* Class Settings (nocturnation/settings.py) as far as a pairing can tell: *)
(* the group, the length of the pairing window, and the file they are kept *)
(* in.  What the file holds is not trusted when it is loaded; what a phone *)
(* or the menus put into a field afterwards is.                            *)
(***************************************************************************)
EXTENDS Integers, Sequences

CONSTANTS
  GROUP_CYCLE,       \* the groups of the menu, <<0, 1, 2, 3>> in the code
  FirstGroups,       \* those a badge without a file picks one of
  PhoneGroups,       \* the groups a phone may write
  PhoneWindows,      \* the windows a phone may write
  MIN_WINDOW,        \* 5 s in the code
  DEFAULT_WINDOW,    \* 30 s
  Unreadable         \* a file that is missing or not JSON

ASSUME StoredAssumption ==
  /\ GROUP_CYCLE \in Seq(Int) /\ FirstGroups # {}
  /\ FirstGroups \subseteq {GROUP_CYCLE[i] : i \in DOMAIN GROUP_CYCLE}
  /\ PhoneWindows \subseteq Nat
  /\ {MIN_WINDOW, DEFAULT_WINDOW} \subseteq Nat /\ MIN_WINDOW <= DEFAULT_WINDOW

Groups == {GROUP_CYCLE[i] : i \in DOMAIN GROUP_CYCLE} \cup PhoneGroups

Windows == PhoneWindows \cup {MIN_WINDOW, DEFAULT_WINDOW}

Contents == [group : Groups, window : Windows]

Files == Contents \cup {Unreadable}

Factory == [group : FirstGroups, window : {DEFAULT_WINDOW}]

(***************************************************************************)
(* A value out of range is clamped when the file is loaded.                *)
(***************************************************************************)
Coerced(c) == [c EXCEPT !.window = IF @ < MIN_WINDOW THEN MIN_WINDOW ELSE @]

(***************************************************************************)
(* save() opens the file, which empties it, and writes it: it leaves the   *)
(* file alone when it cannot be opened, and unreadable when it can but not *)
(* be written.                                                             *)
(***************************************************************************)
Saves(file, c) ==
  {[file |-> c, failed |-> FALSE],
   [file |-> file, failed |-> TRUE],
   [file |-> Unreadable, failed |-> TRUE]}

(***************************************************************************)
(* load(): a badge without a readable file picks a group and saves it.     *)
(***************************************************************************)
Loads(file) ==
  IF file # Unreadable
  THEN {[memory |-> Coerced(file), file |-> file, failed |-> FALSE]}
  ELSE UNION {{[memory |-> c, file |-> s.file, failed |-> s.failed] :
                 s \in Saves(file, c)} : c \in Factory}

(***************************************************************************)
(* The Group entry of a settings menu.  A group that is not of the menu,   *)
(* which a phone may have written, is followed by the first.               *)
(***************************************************************************)
NextGroup(group) ==
  LET after == {GROUP_CYCLE[(i % Len(GROUP_CYCLE)) + 1] :
                  i \in {j \in DOMAIN GROUP_CYCLE : GROUP_CYCLE[j] = group}}
  IN  IF after = {} THEN GROUP_CYCLE[1] ELSE CHOOSE g \in after : TRUE

=============================================================================
