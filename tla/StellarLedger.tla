---------------------------- MODULE StellarLedger ----------------------------
(***************************************************************************)
(* The rules of the Stellar ledger that the atomic swap relies on, for a   *)
(* transaction sourced from one account: sequence number, lower time      *)
(* bound, signer weights against the threshold, unused signatures, and    *)
(* the reserve.  These rules live in stellar-core, not in this repository; *)
(* they are written from the spec's description of the signer algebra     *)
(* (weights, hash-x and pre-authorised-transaction signers).               *)
(*                                                                         *)
(* An account is a record [id, exists, seq, bal, master, thr, signers]:    *)
(* id is its master key, master that key's weight, thr the one threshold   *)
(* the swap sets (low = medium = high), signers a set of records           *)
(* [type, key, weight].  A hash-x signer's key is the preimage itself and  *)
(* a pre-authorised-transaction signer's key the transaction itself:      *)
(* hashes are taken to be injective.  A transaction is a record            *)
(* [op, seq, minTime, dest]; balances count base reserves (0.5 XLM).       *)
(***************************************************************************)
EXTENDS Naturals, FiniteSets

\* The sequence number Stellar gives a new account (ledger number << 32).
NewAccountSeq == 0

\* Minimum balance of an account with n subentries: (2 + n) base reserves.
MinBalance(n) == 2 + n

\* Sum of the weights of a set of signers.
Weight(S) == Cardinality(UNION {{<<s, i>> : i \in 1..s.weight} : s \in S})

\* The signers of acct that a transaction tx carrying signatures of keys
\* and hash-x preimages pres satisfies.
Satisfied(acct, tx, keys, pres) ==
    {s \in acct.signers :
        \/ s.type = "ed25519" /\ s.key \in keys
        \/ s.type = "hashX" /\ s.key \in pres
        \/ s.type = "preAuthTx" /\ s.key = tx}

\* The weight of the authorisations of tx, the master key's included.
AuthWeight(acct, tx, keys, pres) ==
    (IF acct.id \in keys THEN acct.master ELSE 0)
      + Weight(Satisfied(acct, tx, keys, pres))

\* The signatures of tx meet the threshold of acct; a threshold of 0 still
\* needs one signer of positive weight.
Authorized(acct, tx, keys, pres) ==
    LET w == AuthWeight(acct, tx, keys, pres) IN w > 0 /\ w >= acct.thr

\* Every signature of tx is used by a signer of acct (txBAD_AUTH_EXTRA).
NoExtraAuth(acct, keys, pres) ==
    /\ \A k \in keys :
          \/ k = acct.id /\ acct.master > 0
          \/ \E s \in acct.signers : s.type = "ed25519" /\ s.key = k
    /\ \A p \in pres : \E s \in acct.signers : s.type = "hashX" /\ s.key = p

\* The ledger, at close time now, accepts tx sourced from acct.  A payment
\* moves one unit and must leave the reserve.
TxValid(acct, now, tx, keys, pres) ==
    /\ acct.exists
    /\ NoExtraAuth(acct, keys, pres)
    /\ tx.seq = acct.seq + 1
    /\ tx.minTime <= now
    /\ Authorized(acct, tx, keys, pres)
    /\ tx.op = "payment" =>
          acct.bal >= 1 + MinBalance(Cardinality(acct.signers))

\* acct after the ledger applied tx: a merge removes the account, a payment
\* of one unit leaves it; a pre-authorised transaction signer is used up.
Applied(acct, tx) ==
    IF tx.op = "merge"
    THEN [acct EXCEPT !.exists = FALSE, !.bal = 0, !.seq = tx.seq]
    ELSE [acct EXCEPT !.bal = @ - 1, !.seq = tx.seq,
            !.signers = {s \in @ : ~(s.type = "preAuthTx" /\ s.key = tx)}]
=============================================================================
