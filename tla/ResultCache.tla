----------------------------- MODULE ResultCache -----------------------------
(***************************************************************************)
(* What a Collector promises to whoever scrapes it, without its predicate  *)
(* queries, rows and errors: it holds at most one snapshot; a scrape gets  *)
(* the one that is held while the window is open, and otherwise a new one, *)
(* whole and queried after the scrape began, or nothing.  Each refresh,    *)
(* successful or not, opens the window again.  Collector implements this.  *)
(***************************************************************************)
EXTENDS Integers

CONSTANTS
    TTL,          \* length of the window
    Forced,       \* every scrape refreshes
    MaxRows       \* bound: rows of a snapshot

VARIABLES
    now,
    phase,        \* of the scrape: "idle", "asked", "refreshing"
    asked,        \* when the scrape began
    window,       \* when the window was opened
    held,         \* the snapshot, or Nothing
    sent          \* what the last scrape got

vars == <<now, phase, asked, window, held, sent>>

Never     == -(TTL + 1)
Nothing   == [rows |-> 0, of |-> 0, at |-> Never]
\* A snapshot queried at time t that has all its rows.
Whole(n, t) == [rows |-> n, of |-> n, at |-> t]

Init == /\ now = 0 /\ phase = "idle" /\ asked = 0
        /\ window = Never /\ held = Nothing /\ sent = Nothing

Open == asked - window <= TTL

Ask == /\ phase = "idle" /\ phase' = "asked"
       /\ asked' = now
       /\ UNCHANGED <<now, window, held, sent>>

Resend == /\ phase = "asked" /\ phase' = "idle"
          /\ Open /\ ~Forced
          /\ sent' = held
          /\ UNCHANGED <<now, asked, window, held>>

Drop == /\ phase = "asked" /\ phase' = "refreshing"
        /\ ~Open \/ Forced
        /\ held' = Nothing
        /\ UNCHANGED <<now, asked, window, sent>>

Obtain == /\ phase = "refreshing" /\ held = Nothing
          /\ \E n \in 0..MaxRows, t \in asked..now : held' = Whole(n, t)
          /\ UNCHANGED <<now, phase, asked, window, sent>>

Deliver == /\ phase = "refreshing" /\ phase' = "idle"
           /\ sent' = held /\ window' = asked
           /\ UNCHANGED <<now, asked, held>>

Forget == /\ phase = "idle"
          /\ held' = Nothing /\ window' = Never
          /\ UNCHANGED <<now, phase, asked, sent>>

Tick == now' = now + 1 /\ UNCHANGED <<phase, asked, window, held, sent>>

Next == Ask \/ Resend \/ Drop \/ Obtain \/ Deliver \/ Forget \/ Tick

Spec == Init /\ [][Next]_vars
=============================================================================
