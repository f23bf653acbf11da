---------------------------- MODULE SessionLife ----------------------------
(***************************************************************************)
(* The life of a payment session as a client of the server sees it: what   *)
(* GET /api/payment-status answers over time.  Checkout implements it; the *)
(* client modules are built on it.                                         *)
(*                                                                         *)
(* A session may be confirmed after it was answered "expired", when its    *)
(* lookup was under way; once confirmed it stays so until the server       *)
(* forgets it in a restart.  "detected" is never answered.                 *)
(***************************************************************************)
CONSTANT Memos  \* session ids, which are memos

VARIABLE life   \* session id |-> the status answered, "never" before it exists

Answers == {"waiting", "expired", "confirmed", "not_found"}

LifeInit == life = [m \in Memos |-> "never"]

\* A session with no life at all is expired from the start.
Open(m) ==
  /\ life[m] = "never"
  /\ \E s \in {"waiting", "expired"} : life' = [life EXCEPT ![m] = s]

\* The clock moves past the expiry of some sessions.
Expire ==
  \E S \in SUBSET {m \in Memos : life[m] = "waiting"} :
    /\ S # {}
    /\ life' = [m \in Memos |-> IF m \in S THEN "expired" ELSE life[m]]

Settle(m) ==
  /\ life[m] \in {"waiting", "expired"}
  /\ life' = [life EXCEPT ![m] = "confirmed"]

\* A restart empties the store.
Forget ==
  life' = [m \in Memos |-> IF life[m] = "never" THEN "never" ELSE "not_found"]

LifeNext ==
  \/ \E m \in Memos : Open(m) \/ Settle(m)
  \/ Expire
  \/ Forget

LifeSpec == LifeInit /\ [][LifeNext]_life
=============================================================================
