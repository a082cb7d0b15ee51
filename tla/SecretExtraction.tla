------------------------- MODULE SecretExtraction -------------------------
(***************************************************************************)
(* extractsecret (extractSecretCmd.runCommand with                         *)
(* GetAccountDebitediTransactions), run by the funder of a leg against     *)
(* the holding account while the rest of the leg goes on: the leg of       *)
(* AtomicSwapLeg composed with the Horizon effect history of the holding   *)
(* account and the extraction command.                                     *)
(*                                                                         *)
(* The command reads only settled history, which no later ledger changes,  *)
(* so its round-trips (the effects page, then an operation and a           *)
(* transaction per debit) form one step: what matters is when the page is *)
(* read and whether one of the reads fails.                               *)
(***************************************************************************)
EXTENDS AtomicSwapLeg

CONSTANTS
    HexCases,    \* letter cases in which the secret hash argument is written
    Page,        \* the Limit of the effects request (100 in the code)
    MaxCredits   \* bound on payments into the holding account

ASSUME ExtractAssumption ==
    /\ HexCases \subseteq {"lower", "upper"}
    /\ Page \in Nat /\ MaxCredits \in Nat

\* A transaction's signatures are 64-byte ed25519 signatures or 32-byte
\* hash-x preimages: no key's signature is a preimage.
ASSUME SignaturesAssumption == Preimages \cap (Parties \cup {Holding}) = {}

VARIABLES
    feed,   \* Horizon's effects of the holding account, oldest first
    xpc,    \* where the extractsecret command is, then its outcome
    xarg,   \* its secret hash argument
    xval,   \* the extracted secret
    xseen   \* history: number of debits on the ledger when it read them

legVars == vars
extractVars == <<xpc, xarg, xval, xseen>>
allVars == <<legVars, feed, extractVars>>

\* The hex string of the sha256 of b, as the hash argument may write it.
HashArgs == [hash : Preimages, hex : HexCases]

\* Mutant: the hash is formatted with %X.
HexSha256Upper(b) == [hash |-> b, hex |-> "upper"]

\* fmt.Sprintf("%x", sha256.Sum256(b)): lower-case hex of the hash.
HexSha256(b) == [hash |-> b, hex |-> "lower"]

\* The raw bytes of a signature of the transaction: an ed25519 signature
\* has 64, a hash-x signature is the preimage, of 32.
SigSize(s) == IF s \in Preimages THEN 32 ELSE 64
MaxSigSize == 64

\* The transaction's signatures: one per signing key, one per preimage.
Signatures(d) == d.keys \cup d.pres

\* Mutant: the hash comparison is dropped.
MatchesAnySig(s, arg) == SigSize(s) <= MaxSigSize

\* The loop body: signatures larger than an XDR signature are skipped, the
\* others match when their hex hash equals the argument string.
Matches(s, arg) == SigSize(s) <= MaxSigSize /\ HexSha256(s) = arg

\* The length of the first page of the effects request, oldest first.
FirstPageLen == IF Len(feed) < Page THEN Len(feed) ELSE Page

IsDebited(e) == e = "account_debited"

\* GetAccountDebitediTransactions: one transaction per account_debited
\* effect of the page; the k-th such effect is the k-th debit.
DebitedInPage == Cardinality({i \in 1..FirstPageLen : IsDebited(feed[i])})

ExtractInit ==
    /\ Init
    /\ feed = <<>>
    /\ xpc = "idle" /\ xarg = [hash |-> Secret, hex |-> "lower"]
    /\ xval = Junk /\ xseen = 0

(* A step of the leg.  Every debit of the holding account, a payment or  *)
(* a merge, adds an account_debited effect.                              *)
LegStep ==
    /\ Next
    /\ feed' = IF Len(debits') > Len(debits)
               THEN Append(feed, "account_debited") ELSE feed
    /\ UNCHANGED extractVars

(* Any party pays into the holding account: an account_credited effect. *)
Credit ==
    /\ esc.exists
    /\ Cardinality({i \in DOMAIN feed : feed[i] = "account_credited"}) < MaxCredits
    /\ feed' = Append(feed, "account_credited")
    /\ UNCHANGED <<legVars, extractVars>>

(* extractSecretCmd.runCommand with the secret hash argument arg. *)
Extract ==
    /\ xpc = "idle"
    /\ \E arg \in HashArgs :
        LET n == DebitedInPage
            found == {s \in Signatures(debits[1]) : Matches(s, arg)}
        IN  /\ xarg' = arg
            /\ xseen' = Len(debits)
            /\ \/ xpc' = "failed" /\ UNCHANGED xval
               \/ n = 0 /\ xpc' = "notRedeemed" /\ UNCHANGED xval
               \/ n > 1 /\ xpc' = "ambiguous" /\ UNCHANGED xval
               \/ n = 1 /\ found = {} /\ xpc' = "notFound" /\ UNCHANGED xval
               \/ n = 1 /\ found # {} /\ xpc' = "found"
                  /\ xval' = CHOOSE s \in found : TRUE
    /\ UNCHANGED <<legVars, feed>>

ExtractNext == LegStep \/ Credit \/ Extract

ExtractSpec == ExtractInit /\ [][ExtractNext]_allVars

-----------------------------------------------------------------------------
(* Properties *)

Outcomes == {"notRedeemed", "ambiguous", "notFound", "found"}

(* Spec 8.5, never a guessed value: a secret extractsecret prints is the  *)
(* preimage of the hash it was given and was carried by the first debit  *)
(* of the holding account, and AmbiguousSpend is reported only when two  *)
(* debits had settled when it looked.                                    *)
ExtractSound ==
    /\ xpc = "found" => xval = xarg.hash /\ xval \in debits[1].pres
    /\ xpc = "ambiguous" => xseen >= 2

(* Spec 8.1: when the holding account has been spent by exactly one      *)
(* transaction, which carries the preimage of the given hex hash,        *)
(* extractsecret returns that preimage.                                  *)
ExtractRecovers ==
    (xpc \in Outcomes /\ xseen = 1 /\ xarg.hash \in debits[1].pres) =>
        xpc = "found" /\ xval = xarg.hash

(* Spec 2: the funder recovers the secret from the settled redeem: when  *)
(* any debit of the holding account carries the preimage, extractsecret *)
(* run afterwards returns it.                                            *)
SecretRecoverable ==
    (xpc \in Outcomes /\ \E i \in 1..xseen : xarg.hash \in debits[i].pres) =>
        xpc = "found"
-----------------------------------------------------------------------------
(* The inductive invariant behind ExtractSound and ExtractRecovers. *)

\* The positions of the effects of one kind in the history.
Positions(kind) == {i \in DOMAIN feed : feed[i] = kind}

\* The history holds one account_debited effect per debit and at most
\* MaxCredits account_credited effects, and nothing else; the command's
\* state is well typed, and what it saw is no more than what happened.
ExtractInv ==
    /\ IInv
    /\ feed \in Seq({"account_debited", "account_credited"})
    /\ Cardinality(Positions("account_debited")) = Len(debits)
    /\ Cardinality(Positions("account_credited")) <= MaxCredits
    /\ xpc \in {"idle", "failed"} \cup Outcomes
    /\ xarg.hash \in Preimages
    /\ xseen \in 0..Len(debits)
    /\ xpc = "found" => xseen >= 1
    /\ ExtractSound
=============================================================================
