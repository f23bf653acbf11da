-------------------------------- MODULE Gate --------------------------------
(***************************************************************************)
(* The checkout server together with a verifier device at the door.        *)
(*                                                                         *)
(* Buyers take their pass from the server while it shows it and keep it.   *)
(* The device is offline: it was given a public key when it was set up,    *)
(* may be given the server's present one again, and compares expiry times  *)
(* with a clock of its own, drift seconds off the server's.                *)
(***************************************************************************)
EXTENDS Checkout, AccessToken

CONSTANT MaxDrift  \* bound: seconds the device's clock may be off

ASSUME DriftAssumption == MaxDrift \in Nat

VARIABLES
  saved,       \* passes buyers have downloaded
  device_key,  \* the key whose public half the device holds
  drift,       \* the device's clock minus the server's
  admitted     \* history: [pass, at] of each entry, at the server's time

gateVars == <<saved, device_key, drift, admitted>>
allVars == <<vars, gateVars>>

\* A pass as it is carried to the door: the server's JSON, shown or pasted.
TokenOf(pass) ==
  [format |-> "json", key |-> pass.key, expires_at |-> pass.expires_at]

\* now_secs on the device
device_now == now + drift

GateInit ==
  /\ Init
  /\ saved = {}
  /\ device_key = signing_key
  /\ drift \in (-MaxDrift) .. MaxDrift
  /\ admitted = {}

\* GET /api/access-token/:id answers with the pass once there is one.
GetAccessToken(m) ==
  /\ Status(m) = "confirmed"
  /\ saved' = saved \union {sessions[m].access_token}
  /\ UNCHANGED <<vars, device_key, drift, admitted>>

\* The operator gives the device the server's public key.
LoadPublicKey ==
  /\ device_key' = signing_key
  /\ UNCHANGED <<vars, saved, drift, admitted>>

\* verifier_cli prints VALID: the buyer enters.  INVALID changes nothing.
Scan(pass) ==
  /\ pass \in saved
  /\ Verifies(TokenOf(pass), device_key, device_now)
  /\ admitted' = admitted \union {[pass |-> pass, at |-> now]}
  /\ UNCHANGED <<vars, saved, device_key, drift>>

GateNext ==
  \/ Next /\ UNCHANGED gateVars
  \/ \E m \in Memos : GetAccessToken(m)
  \/ LoadPublicKey
  \/ \E pass \in saved : Scan(pass)

GateSpec == GateInit /\ [][GateNext]_allVars

-----------------------------------------------------------------------------
(* Properties.                                                             *)

\* Whoever enters holds a pass that this issuer signed for a session whose
\* payment is on the ledger, whatever has been restarted since, and enters
\* before the pass has expired by more than the device's clock is behind.
EntryIsPaid ==
  \A e \in admitted :
    /\ e.at < e.pass.expires_at + MaxDrift
    /\ \E n \in DOMAIN issued :
         /\ issued[n].pass = e.pass
         /\ ledger[e.pass.payment.tx_hash].memo = issued[n].session_id
         /\ ledger[e.pass.payment.tx_hash].to = Destination

\* With a configured key, a pass a buyer has downloaded opens the gate until
\* it expires on the device's clock: restarts of the server and reloads of the
\* device's key do not matter.
DownloadedPassOpens ==
  StableKey =>
    \A pass \in saved :
      pass.expires_at > device_now => Verifies(TokenOf(pass), device_key, device_now)

\* With an ephemeral key, once the device has the key of the present process
\* no pass of an earlier process opens the gate, downloaded or not.
ReloadDropsOldPasses ==
  ~StableKey /\ device_key = signing_key =>
    \A n \in DOMAIN issued :
      Verifies(TokenOf(issued[n].pass), device_key, device_now)
        => issued[n].session_id \in DOMAIN sessions

\* However often passes are shown: there are never more different ones among the
\* entries than payments the destination has received.
EntriesAreCovered == Cardinality({e.pass : e \in admitted}) <= Cardinality(Received)

\* A device never takes to a pass it has refused, unless it is given the newer key
\* the pass was signed with: INVALID for an expired pass, or for one of an earlier
\* process, is the last word.
RefusedStaysRefused ==
  [][\A n \in DOMAIN issued :
       LET token == TokenOf(issued[n].pass)
       IN  token.key <= device_key /\ ~Verifies(token, device_key, device_now)
             => ~Verifies(token, device_key', device_now')]_allVars

Downloaded == \A pass \in saved : \E n \in DOMAIN issued : issued[n].pass = pass

KeysAsConfigured ==
  /\ StableKey =>
       device_key = 0 /\ \A n \in DOMAIN issued : issued[n].pass.key = 0
  /\ ~StableKey =>
       \A n \in DOMAIN issued :
         /\ issued[n].pass.key <= restarts
         /\ issued[n].pass.key = restarts => issued[n].session_id \in DOMAIN sessions

\* The inductive invariant: the server's own, and where passes and keys come
\* from.
GateInv ==
  /\ IndInv
  /\ drift \in (-MaxDrift) .. MaxDrift
  /\ Downloaded
  /\ KeysAsConfigured
  /\ EntryIsPaid
=============================================================================
