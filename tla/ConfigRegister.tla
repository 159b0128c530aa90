---------------------------- MODULE ConfigRegister ----------------------------
(***************************************************************************)
(* What the exporter promises about its configuration: it is one register, *)
(* which a reload replaces at once, by something no older and never in the *)
(* middle of a scrape; scrapes run one at a time, and all of a scrape runs *)
(* what is in the register.  Exporter, where the queries are handed from   *)
(* server to server, implements this.                                      *)
(***************************************************************************)
EXTENDS Integers

CONSTANTS Scrapers, MaxVersion

VARIABLES
    current,     \* version in the register
    ran          \* per scraper, the versions its scrape has run so far

vars == <<current, ran>>

Init == current = 1 /\ ran = [p \in Scrapers |-> {}]

Alone(p) == \A o \in Scrapers \ {p} : ran[o] = {}

Run(p) == /\ Alone(p)
          /\ ran' = [ran EXCEPT ![p] = @ \cup {current}]
          /\ UNCHANGED current

End(p) == /\ ran' = [ran EXCEPT ![p] = {}]
          /\ UNCHANGED current

Install == /\ \A p \in Scrapers : ran[p] = {}
           /\ current' \in current..MaxVersion
           /\ UNCHANGED ran

Next == (\E p \in Scrapers : Run(p) \/ End(p)) \/ Install

Spec == Init /\ [][Next]_vars
=============================================================================
