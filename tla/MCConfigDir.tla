----------------------------- MODULE MCConfigDir -----------------------------
(***************************************************************************)
(* Three files and three branches, one of which conflicts with a constant  *)
(* label; a file may be documentation only, or define branches of another. *)
(***************************************************************************)
EXTENDS ConfigDir, TLC

CONSTANTS b1, b2, conflicting

Default  == [sql |-> "one", priority |-> 0]
Explicit == [sql |-> "two", priority |-> 5]

MCBranches    == {b1, b2, conflicting}
MCConflicting == {conflicting}
MCDefinitions == {Default, Explicit}
MCContents    == {<<>>, b1 :> Default, b1 :> Explicit, (b1 :> Default) @@ (b2 :> Default),
                  (b2 :> Default) @@ (conflicting :> Default)}
=============================================================================
