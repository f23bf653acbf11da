----------------------------- MODULE GateProofs -----------------------------
(***************************************************************************)
(* Theorems about Gate, for every value of its constants.  They rest on    *)
(* the inductive invariant of the server, which the gate does not disturb. *)
(***************************************************************************)
EXTENDS Gate, CheckoutProofs

\* The server steps as it does alone, or not at all.
LEMMA GateStep == [GateNext]_allVars => [Next]_vars
BY DEF GateNext, allVars, GetAccessToken, LoadPublicKey, Scan

\* The signed history only grows.
LEMMA IssuedGrows ==
  ASSUME IndInv, [Next]_vars
  PROVE  \A n \in DOMAIN issued : n \in DOMAIN issued' /\ issued'[n] = issued[n]
<1>1. CASE issued' = issued
  BY <1>1
<1>2. CASE IssueAndMarkPaid
  BY <1>2, IssueFacts
<1> QED
  BY <1>1, <1>2, IssuedUnchanged

\* What the types say of a signed pass.
LEMMA IssuedType ==
  ASSUME TypeOK, NEW n \in DOMAIN issued
  PROVE  issued[n].pass.key \in Nat /\ issued[n].pass.expires_at \in Nat
<1> DEFINE Entry == [session_id : Memos, pass : Pass]
<1>1. issued[n] \in Entry
  <2> HIDE DEF Entry
  <2>1. issued \in Seq(Entry)
    BY DEF TypeOK, Entry
  <2> QED
    BY <2>1
<1> QED
  BY <1>1 DEF Pass

\* The ledger record a signed pass names carries its session's memo.
LEMMA BackedRecord ==
  ASSUME PassBackedByPayment, NEW n \in DOMAIN issued
  PROVE  LET i == issued[n].pass.payment.tx_hash
         IN i \in DOMAIN ledger /\ ledger[i].memo = issued[n].session_id
              /\ ledger[i].to = Destination
<1> DEFINE event == issued[n].pass.payment
<1>1. /\ event.tx_hash \in DOMAIN ledger /\ event = parse_payment(ledger, event.tx_hash)
      /\ event.memo = issued[n].session_id /\ event.destination_account = Destination
  BY DEF PassBackedByPayment
<1>2. \A i : /\ parse_payment(ledger, i).memo = ledger[i].memo
             /\ parse_payment(ledger, i).destination_account = ledger[i].to
  BY DEF parse_payment
<1> QED
  BY <1>1, <1>2

\* Every session that is shown as confirmed shows a signed pass.
LEMMA ConfirmedIsIssued ==
  ASSUME IndInv, NEW m, Status(m) = "confirmed"
  PROVE  \E n \in DOMAIN issued : issued[n].pass = sessions[m].access_token
<1>1. m \in DOMAIN sessions /\ sessions[m].access_token # None
  BY DEF Status, StatusOf
<1>2. Settled(m)
  BY <1>1 DEF IndInv, SettledOrUntouched, Untouched
<1> QED
  BY <1>2 DEF Settled

\* Where the downloaded passes come from does not change.
LEMMA DownloadedNext ==
  ASSUME GateInv, [GateNext]_allVars
  PROVE  Downloaded'
<1> USE DEF GateInv
<1>1. \A n \in DOMAIN issued : n \in DOMAIN issued' /\ issued'[n] = issued[n]
  BY GateStep, IssuedGrows
<1>2. CASE saved' = saved
  BY <1>1, <1>2 DEF Downloaded
<1>3. ASSUME NEW m \in Memos, GetAccessToken(m) PROVE Downloaded'
  <2>1. /\ saved' = saved \union {sessions[m].access_token} /\ issued' = issued
        /\ Status(m) = "confirmed"
    BY <1>3 DEF GetAccessToken, vars
  <2> QED
    BY <2>1, ConfirmedIsIssued DEF Downloaded
<1>4. (saved' = saved) \/ \E m \in Memos : GetAccessToken(m)
  BY DEF GateNext, allVars, gateVars, LoadPublicKey, Scan
<1> QED
  BY <1>2, <1>3, <1>4

\* A configured key never changes; an ephemeral one dies with its sessions.
LEMMA KeysNext ==
  ASSUME GateInv, [GateNext]_allVars
  PROVE  KeysAsConfigured'
<1> USE DEF GateInv
<1>1. [Next]_vars
  BY GateStep
<1>2. device_key' \in {device_key, signing_key}
  BY DEF GateNext, allVars, gateVars, LoadPublicKey, Scan, GetAccessToken
<1>3. restarts \in Nat /\ restarts' \in Nat
  BY <1>1, TypeNext DEF IndInv, TypeOK
<1>4. CASE IssueAndMarkPaid
  <2>1. PICK m \in DOMAIN sessions, pass \in Pass, new \in Nat :
          /\ pass = PassFor(session, payment)
          /\ DOMAIN issued' = DOMAIN issued \union {new}
          /\ \A n \in DOMAIN issued : issued'[n] = issued[n]
          /\ issued'[new] = [session_id |-> m, pass |-> pass]
          /\ sessions' = MarkedPaid(m, pass)
    BY <1>4, IssueFacts DEF GateInv
  <2>2. restarts' = restarts /\ DOMAIN sessions' = DOMAIN sessions
    BY <1>4, <2>1 DEF IssueAndMarkPaid, Continue, MarkedPaid
  <2>3. pass.key = signing_key
    BY <2>1 DEF PassFor
  <2>4. CASE StableKey
    BY <1>2, <2>1, <2>3, <2>4 DEF KeysAsConfigured, signing_key
  <2>5. CASE ~StableKey
    BY <1>3, <2>1, <2>2, <2>3, <2>5 DEF KeysAsConfigured, signing_key
  <2> QED
    BY <2>4, <2>5
<1>5. CASE Restart
  <2>1. issued' = issued /\ restarts' = restarts + 1
    BY <1>5 DEF Restart
  <2>2. CASE StableKey
    BY <1>2, <2>1, <2>2 DEF KeysAsConfigured, signing_key
  <2>3. CASE ~StableKey
    <3>1. ASSUME NEW n \in DOMAIN issued
          PROVE  issued[n].pass.key <= restarts + 1 /\ issued[n].pass.key # restarts + 1
      <4>1. issued[n].pass.key \in Nat /\ issued[n].pass.key <= restarts
        BY <2>3, IssuedType DEF KeysAsConfigured, IndInv
      <4> QED
        BY <1>3, <4>1
    <3> QED
      BY <2>1, <2>3, <3>1 DEF KeysAsConfigured
  <2> QED
    BY <2>2, <2>3
<1>6. CASE issued' = issued /\ restarts' = restarts /\ DOMAIN sessions \subseteq DOMAIN sessions'
  BY <1>2, <1>6 DEF KeysAsConfigured, signing_key
<1>7. \/ IssueAndMarkPaid \/ Restart
      \/ issued' = issued /\ restarts' = restarts /\ DOMAIN sessions \subseteq DOMAIN sessions'
  BY <1>1 DEF Next, vars, Watcher, CreatePaymentRequest, Put, Confirm, Tick, PollTick,
    AskHorizon, LookupFound, LookupEmpty, LookupFailed, IssueFails, Continue
<1> QED
  BY <1>4, <1>5, <1>6, <1>7

\* Who entered stays entitled; who enters now holds a live downloaded pass.
LEMMA EntryNext ==
  ASSUME GateInv, [GateNext]_allVars
  PROVE  EntryIsPaid'
<1> USE DEF GateInv
<1>1. \A n \in DOMAIN issued : n \in DOMAIN issued' /\ issued'[n] = issued[n]
  BY GateStep, IssuedGrows
<1>2. \A i \in DOMAIN ledger : i \in DOMAIN ledger' /\ ledger'[i] = ledger[i]
  BY GateStep, LedgerGrows DEF IndInv
<1>3. \A n \in DOMAIN issued :
        LET i == issued[n].pass.payment.tx_hash
        IN i \in DOMAIN ledger /\ ledger[i].memo = issued[n].session_id
             /\ ledger[i].to = Destination
  BY BackedRecord DEF IndInv
<1>4. CASE admitted' = admitted
  <2>1. ASSUME NEW e \in admitted
        PROVE  \E n \in DOMAIN issued' :
                 /\ issued'[n].pass = e.pass
                 /\ ledger'[e.pass.payment.tx_hash].memo = issued'[n].session_id
                 /\ ledger'[e.pass.payment.tx_hash].to = Destination
    <3>1. PICK n \in DOMAIN issued : issued[n].pass = e.pass
      BY DEF EntryIsPaid
    <3> QED
      BY <1>1, <1>2, <1>3, <3>1
  <2> QED
    BY <1>4, <2>1 DEF EntryIsPaid
<1>5. ASSUME NEW p \in saved, Scan(p) PROVE EntryIsPaid'
  <2>1. /\ admitted' = admitted \union {[pass |-> p, at |-> now]}
        /\ issued' = issued /\ ledger' = ledger
    BY <1>5 DEF Scan, vars
  <2>2. PICK n \in DOMAIN issued : issued[n].pass = p
    BY DEF Downloaded
  <2>3. p.expires_at \in Nat /\ now \in Nat
    BY <2>2, IssuedType DEF IndInv, TypeOK
  <2>4. p.expires_at > now + drift
    BY <1>5 DEF Scan, Verifies, TokenOf, verify_token_string, verify_compact_token, device_now
  <2>5. now < p.expires_at + MaxDrift
    BY <2>3, <2>4, DriftAssumption
  <2> QED
    BY <1>3, <2>1, <2>2, <2>5 DEF EntryIsPaid
<1>6. (admitted' = admitted) \/ \E p \in saved : Scan(p)
  BY DEF GateNext, allVars, gateVars, GetAccessToken, LoadPublicKey
<1> QED
  BY <1>4, <1>5, <1>6

LEMMA GateInvInit == GateInit => GateInv
<1> SUFFICES ASSUME GateInit PROVE GateInv
  OBVIOUS
<1>1. IndInv
  BY IndInvInit DEF GateInit
<1> QED
  BY <1>1 DEF GateInit, Init, GateInv, Downloaded, KeysAsConfigured, EntryIsPaid, signing_key

LEMMA GateInvNext == GateInv /\ [GateNext]_allVars => GateInv'
<1> SUFFICES ASSUME GateInv, [GateNext]_allVars PROVE GateInv'
  OBVIOUS
<1>1. IndInv'
  BY GateStep, IndInvNext DEF GateInv
<1>2. drift' = drift
  BY DEF GateNext, allVars, gateVars, GetAccessToken, LoadPublicKey, Scan
<1> QED
  BY <1>1, <1>2, DownloadedNext, KeysNext, EntryNext DEF GateInv

\* The inductive invariant of the server and the gate together.
THEOREM GateInductive == GateSpec => []GateInv
BY GateInvInit, GateInvNext, PTL DEF GateSpec

\* Nobody enters without a pass signed for a payment, nor long after it expired.
THEOREM EntryPaid == GateSpec => []EntryIsPaid
<1>1. GateInv => EntryIsPaid
  BY DEF GateInv
<1> QED
  BY <1>1, GateInductive, PTL

\* With a configured key a live downloaded pass opens the gate.
THEOREM PassOpens == GateSpec => []DownloadedPassOpens
<1>1. GateInv => DownloadedPassOpens
  BY DEF GateInv, KeysAsConfigured, Downloaded, DownloadedPassOpens, Verifies,
    verify_token_string, TokenOf
<1> QED
  BY <1>1, GateInductive, PTL

\* With an ephemeral key a reloaded device drops every earlier process's pass.
THEOREM OldPassesDropped == GateSpec => []ReloadDropsOldPasses
<1>1. GateInv => ReloadDropsOldPasses
  BY DEF GateInv, KeysAsConfigured, ReloadDropsOldPasses, Verifies,
    verify_token_string, verify_compact_token, TokenOf, signing_key
<1> QED
  BY <1>1, GateInductive, PTL

\* From the ledger to the door: buyers who scan their passes are at most as many
\* different passes as the destination has received payments.
THEOREM EntriesBalance == GateSpec => []EntriesAreCovered
<1>1. ASSUME GateInv PROVE EntriesAreCovered
  <2> DEFINE Entered == {e.pass : e \in admitted}
             tx == [p \in Entered |-> p.payment.tx_hash]
  <2>1. \A p \in Entered : \E n \in DOMAIN issued : issued[n].pass = p
    BY <1>1 DEF GateInv, EntryIsPaid
  <2>2. \A p \in Entered : tx[p] \in Received
    BY <1>1, <2>1, ReceivedForPass DEF GateInv
  <2>3. ASSUME NEW p \in Entered, NEW q \in Entered, tx[p] = tx[q] PROVE p = q
    <3>1. PICK n \in DOMAIN issued : issued[n].pass = p
      BY <2>1
    <3>2. PICK k \in DOMAIN issued : issued[k].pass = q
      BY <2>1
    <3>3. OnePass
      BY <1>1, InvOnePass DEF GateInv
    <3> QED
      BY <2>3, <3>1, <3>2, <3>3 DEF OnePass
  <2>4. tx \in Injection(Entered, Received)
    BY <2>2, <2>3 DEF Injection, IsInjective
  <2>5. IsFiniteSet(Received)
    BY <1>1, ReceivedFinite DEF GateInv
  <2> QED
    BY <2>4, <2>5, FS_Injection DEF EntriesAreCovered
<1> QED
  BY <1>1, GateInductive, PTL

\* The device's key is one the server has had, and is only replaced by a later one.
DeviceKeyKnown ==
  /\ device_key \in Nat /\ device_key <= signing_key /\ restarts \in Nat
  /\ now \in Nat /\ drift \in Int

LEMMA DeviceKeyNext ==
  ASSUME GateInv, DeviceKeyKnown, [GateNext]_allVars
  PROVE  DeviceKeyKnown' /\ device_key <= device_key' /\ device_now <= device_now'
<1>1. [Next]_vars
  BY GateStep
<1>2. restarts \in Nat /\ restarts' \in Nat /\ now \in Nat /\ now' \in Nat
  BY <1>1, TypeNext DEF GateInv, IndInv, TypeOK
<1>3. restarts <= restarts' /\ now <= now'
  <2>1. restarts' \in {restarts, restarts + 1} /\ now' \in {now, now + 1}
    BY <1>1 DEF Next, vars, Watcher, CreatePaymentRequest, Confirm, Tick, Restart,
      PollTick, AskHorizon, LookupFound, LookupEmpty, LookupFailed, IssueAndMarkPaid,
      IssueFails, Continue
  <2> QED
    BY <1>2, <2>1
<1>4. device_key' \in {device_key, signing_key} /\ drift' = drift
  BY DEF GateNext, allVars, gateVars, LoadPublicKey, Scan, GetAccessToken
<1>5. signing_key \in Nat /\ signing_key' \in Nat /\ signing_key <= signing_key'
  BY <1>2, <1>3 DEF signing_key
<1>6. DeviceKeyKnown' /\ device_key <= device_key'
  BY <1>2, <1>4, <1>5 DEF DeviceKeyKnown
<1>7. device_now <= device_now'
  <2>1. drift \in Int /\ drift' = drift
    BY <1>4 DEF DeviceKeyKnown
  <2>2. device_now = now + drift /\ device_now' = now' + drift'
    BY DEF device_now
  <2>3. \A a, b, d \in Int : a <= b => a + d <= b + d
    OBVIOUS
  <2>4. now \in Int /\ now' \in Int /\ now <= now'
    BY <1>2, <1>3
  <2> QED
    BY <2>1, <2>2, <2>3, <2>4
<1> QED
  BY <1>6, <1>7

\* verifier_cli's INVALID is final for the key the pass needs: expiry is not undone by
\* time, and a key that has been replaced does not come back.
THEOREM RefusedStays == GateSpec => RefusedStaysRefused
<1>1. GateInit => DeviceKeyKnown
  BY DriftAssumption DEF GateInit, Init, DeviceKeyKnown, signing_key
<1>2. GateInv /\ DeviceKeyKnown /\ [GateNext]_allVars => DeviceKeyKnown'
  BY DeviceKeyNext
<1>3. ASSUME GateInv, DeviceKeyKnown, [GateNext]_allVars, NEW n \in DOMAIN issued
      PROVE  LET token == TokenOf(issued[n].pass)
             IN  token.key <= device_key /\ ~Verifies(token, device_key, device_now)
                   => ~Verifies(token, device_key', device_now')
  <2> DEFINE p == issued[n].pass
  <2>1. p.key \in Nat /\ p.expires_at \in Nat
    BY <1>3, IssuedType DEF GateInv, IndInv
  <2>2. /\ device_key \in Nat /\ device_key' \in Nat /\ device_key <= device_key'
        /\ device_now \in Int /\ device_now' \in Int /\ device_now <= device_now'
    BY <1>3, DeviceKeyNext DEF DeviceKeyKnown, device_now
  <2> HIDE DEF p
  <2>3. \A key, t : Verifies(TokenOf(p), key, t) <=> p.key = key /\ p.expires_at > t
    BY DEF Verifies, TokenOf, verify_token_string, verify_compact_token
  <2>4. /\ TokenOf(p).key = p.key
        /\ p.key <= device_key /\ ~(p.key = device_key /\ p.expires_at > device_now)
           => ~(p.key = device_key' /\ p.expires_at > device_now')
    BY <2>1, <2>2 DEF TokenOf
  <2> QED
    BY <2>3, <2>4 DEF p
<1>4. GateInv /\ DeviceKeyKnown /\ [GateNext]_allVars
        => [\A n \in DOMAIN issued :
              LET token == TokenOf(issued[n].pass)
              IN  token.key <= device_key /\ ~Verifies(token, device_key, device_now)
                    => ~Verifies(token, device_key', device_now')]_allVars
  BY <1>3
<1> QED
  BY <1>1, <1>2, <1>4, GateInductive, PTL DEF GateSpec, RefusedStaysRefused
=============================================================================
