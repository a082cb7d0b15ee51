# TLA+ models of the Stellar atomic swap (`src/cmd/stellaratomicswap/main.go`)

The program is a command-line tool for one leg of a cross-chain atomic swap on
Stellar. There is no script. The swap rules live in the signer configuration of
a fresh "holding" (escrow) account:

| Signer | Weight |
|---|---|
| the counterparty's ed25519 key | 1 |
| a hash-x signer for sha256(secret) | 1 |
| a pre-authorised-transaction signer for the hash of a refund merge, time-locked | 2 |
| the master key | 0 |

All three thresholds are 2. The commands are:

- `initiate` and `participate`: build the holding account.
- `auditcontract`: the counterparty checks someone else's holding account.
- `redeem`: the recipient merges the account to itself with the secret.
- `refund`: the funder submits the pre-built refund.
- `extractsecret`: finds the secret in the redeem.

## Components and modules

| Component (spec §2) | Code | Module | Status |
|---|---|---|---|
| Stellar ledger rules | stellar-core, not in the repository | `StellarLedger` | written from the spec |
| HoldingAccountBuilder | `createHoldingAccount`, `setHoldingAccountSigningOptions`, `createAtomicSwapHoldingAccount`, `initiateCmd`/`participateCmd.runCommand` (305-567) | `AtomicSwapLeg` | modelled |
| RefundTransactionFactory | `createRefundTransaction` (305-333) | `AtomicSwapLeg` | modelled |
| RedeemTransactionBuilder, refund command | `redeemCmd`, `refundCmd.runCommand` (700-769) | `AtomicSwapLeg` | modelled |
| ContractAuditor | `auditContractCmd.runCommand` (569-698) | `AuditContract` | modelled |
| SecretExtractor | `extractSecretCmd.runCommand`, `GetAccountDebitediTransactions` (771-889) | `SecretExtraction` | modelled |
| Escrow promise (spec §2, §3) | none: what a leg promises | `EscrowLeg`, `LegRefinement` | abstract spec and refinement mapping |
| Ledger client | `GetAccount`, `SubmitTransaction`, `GetAccountDebitediTransactions` (843-908) | inside the actions | modelled by their outcomes |
| CLI parsing and output | `main`, `run`, printing | none | not modelled: formatting only |

### `StellarLedger`

This module holds the ledger rules the swap depends on, for a transaction sourced
from one account. Each is written as an operator:

- The sequence number must be the account's plus one.
- The lower time bound must have passed.
- The signer weights must reach the threshold, with a weight greater than 0.
- Every signature must be used (`txBAD_AUTH_EXTRA`).
- An account needs a reserve of (2 + subentries) × 0.5 XLM.
- A merge removes the account.
- An applied pre-authorised transaction is removed as a signer.

Hashes are taken to be injective. A hash-x key is the preimage itself, and a
pre-auth key is the transaction itself. Balances count 0.5 XLM units.

### `AtomicSwapLeg`

This module models one leg, with every party acting on the holding account.

**The builder** is a sequential command, the `pc` variable in the model. It has
one action per network round trip:

1. `FetchFunding`: read the funding account.
2. `SubmitCreate`: the CreateAccount.
3. `FetchForRefund`: read the holding account and build the refund with
   `RefundTransaction`.
4. `FetchForConfig`: read the holding account again.
5. `SubmitConfig`: the four SetOptions.

Every call can fail. A failure ends the command with `pc = "failed"`, as the
code's `return err` does. A submission has three outcomes:

- applied, with a reply;
- applied, but the reply is lost, so the command fails anyway;
- rejected.

The holding key pair exists only in the command's memory. Once the command has
returned, success or failure, a funder who kept it may sign with it (`Holds`).

**The refund transaction** is built from the holding account as read.
`IncrementSequenceNumber` and then `Build` each add one, so the refund's sequence
number is the read one plus 2 (lines 310 and 328). The configuration is built
from a fresh read plus 1. The refund therefore takes the number right after the
configuration.

**The other actors** are these:

- `RedeemFetch`/`RedeemSubmit`: the recipient's redeem, signed with one preimage
  it knows, the secret or junk.
- `Refund`: the refund.
- `Spend(p)`: any party (funder, recipient or a third party) submits a merge or a
  payment. It is signed with any keys the party holds and any preimages it knows.
- `FunderOtherTx`: other funding-account transactions, which stale the builder's
  read.
- `Reveal`: the secret is revealed on the other chain.
- `Tick`: ledger time advances.

The variable `debits` records every transaction that debited the holding account,
with the keys and preimages that signed it.

`Role` selects between initiate and participate. In the initiator's leg the funder
knows the secret and the lock time is `LockTime`. In the participant's leg the
funder does not know it and the lock time is `LockTime \div 2`.

### `AuditContract`

This module models the audit as the counterparty runs it against a holding
account configured by a possibly dishonest funder. The account may have:

- any thresholds among the given choices;
- master weight 0 or 1;
- up to four signers, of right and wrong weights, duplicates, and one of an
  unknown type.

The counterparty is handed one of four refund transactions:

- honest;
- no lock time;
- two operations;
- merging another account.

The model follows the code's control flow. `FetchAccount` covers the Horizon read.
`CheckThresholds` covers the three threshold checks. Then comes the loop over
Horizon's signer list, which includes the master key with its weight, and it
runs in every order (`VisitSigner`). The loop has the same early returns as the
code: weight 0 skipped, duplicates, wrong weights, unknown types. The final
checks are `RefundMatches` and `FinalCheck`.

### `SecretExtraction`

This module composes the leg of `AtomicSwapLeg` with the Horizon effect history
of the holding account (`feed`) and the `extractsecret` command. Every step of
the leg that adds a debit appends an `account_debited` effect (`LegStep`), and
`Credit` lets anyone pay into the account, which appends `account_credited`.
Credits do not change the modelled balance: only their effects matter here.
The other effect types (account creation, signer changes) are left out.
About seven such setup effects come first on the real page. The program's
page therefore overflows at about `Page - 7` credits, where the model's
overflows at `Page` credits. This moves the boundary of `extract_page_limit`
but not whether the program can cross it.

`Extract` is the whole command as one step. It reads only settled history,
which later ledgers do not change, so its round trips (the effects page, then
an operation and a transaction per debit) can be merged; any of them can fail
(`xpc = "failed"`). The step takes a hash argument from `HashArgs`, a hash and
the letter case in which its hex is written, since line 295 stores the argument
string without decoding it. Then:

- `DebitedInPage` counts the `account_debited` effects of the first `Page`
  effects (`Limit: 100`, no paging);
- 0 gives "not redeemed yet", more than 1 gives "multiple spending
  transactions";
- with exactly one, the signatures of the first debit are scanned: those
  longer than `XDRMaxSize` are skipped, and one matches when the lower-case
  `%x` of its sha256 equals the argument string (`Matches`, `HexSha256`).

## Runs

| Run | Checks | Result |
|---|---|---|
| `leg_initiate` (`MC_AtomicSwapLeg_initiate.cfg`) | `EscrowPaysOnlyByRules`, `RefundReserved` | pass, 12k states |
| `leg_participate` (`MC_AtomicSwapLeg_participate.cfg`) | the same | pass, 12k states |
| `leg_stranded` (`MC_AtomicSwapLeg_stranded.cfg`) | `NoStrandedEscrow` | **violation** (finding) |
| `audit` (`MC_AuditContract.cfg`) | `AuditSound`, `AuditComplete` | pass, 240k states |
| `audit_live_master` (`MC_AuditContract_master.cfg`) | `AuditRejectsLiveMaster` | **violation** (finding) |
| `leg_refund_live` (`MC_AtomicSwapLeg_refundlive.cfg`) | `RefundLive` under `LiveSpec` | pass, 12k states |
| `leg_refines_initiate` (`MC_LegRefinement_initiate.cfg`) | `AbsSpec` | pass, 12k states |
| `leg_refines_participate` (`MC_LegRefinement_participate.cfg`) | `AbsSpec` | pass, 12k states |
| `extract_sound` (`MC_SecretExtraction_sound.cfg`) | `ExtractSound`, `ExtractRecovers` | pass, 165k states |
| `extract_split` (`MC_SecretExtraction_split.cfg`) | `SecretRecoverable` | **violation** (finding) |
| `extract_page_limit` (`MC_SecretExtraction_page.cfg`) | `ExtractRecovers` | **violation** (finding) |
| `extract_upper_hex` (`MC_SecretExtraction_hex.cfg`) | `ExtractRecovers` | **violation** (finding) |

What the properties say:

- **`EscrowPaysOnlyByRules`**: after the builder returned success, every debit
  either is signed by the recipient together with the secret, or is the refund
  transaction applied at or after the lock time. The actors include a funder who
  kept the holding key and a third party.
- **`RefundReserved`**: while the secret is unrevealed, the refund transaction
  holds the holding account's next sequence number. Nobody, the funder's
  holding key included, can consume that number and make the refund
  unsubmittable.
- **`AuditSound`**: when the audit succeeds, no operation at any threshold level
  can be authorised except by the reported recipient with the preimage of the
  reported hash, or by the audited refund transaction.
- **`AuditComplete`**: the account that `setHoldingAccountSigningOptions` builds,
  audited with its own refund, never fails the audit's checks. The audit reports
  its recipient and secret hash.
- **`RefundLive`**: once the participant's escrow is set up, if the secret is
  never revealed, the account is eventually merged away, whatever the funder's
  holding key, the recipient and third parties submit in the meantime.
- **`AbsSpec`**: the leg implements `EscrowLeg`. The mapping sends a successful
  builder to "locked" and a failed one to "aborted". A live debit that is the
  refund transaction maps to `refunded`. The keys of the other live debits map
  to `claimedBy`. `EscrowLeg` allows a claim only by `{Recipient}`, together
  with the secret's publication, and only before a refund. It allows a refund
  only after the lock time and only when nothing was claimed.
- **`ExtractSound`**: a secret that `extractsecret` prints is the preimage of
  the given hash and was carried by the first debit. AmbiguousSpend is
  reported only when two debits had settled. This is checked with the command
  run at every point of the participant's leg.
- **`ExtractRecovers`** (spec §8.1): if exactly one transaction has spent the
  account and it carries the preimage of the given hash, the command returns
  that preimage.
- **`SecretRecoverable`** (spec §2): if any debit carries the preimage, the
  command returns it.

Each property of a passing run has a mutant in PROJECT.json that breaks it:

| Property | Mutant |
|---|---|
| `EscrowPaysOnlyByRules` | the SetOptions leaves the master weight at 1 |
| `RefundReserved` | the refund's sequence number is incremented only once |
| `AuditSound` | the signer weights are not checked |
| `AuditComplete` | weight-0 signers are not skipped |
| `RefundLive` | the refund's sequence number is incremented only once |
| `AbsSpec` (both roles) | the SetOptions leaves the master weight at 1 |
| `ExtractSound` | the hash comparison is dropped |
| `ExtractRecovers` | the hash is formatted with `%X` |

### Bounds

In the leg model, `MC_AtomicSwapLeg` has the following instance:

- amounts of 2 and 3 XLM (4 and 6 units), one below and one above the reserve
  that three signers need;
- lock time 2 and ledger time at most 3, so both sides of the lock time are
  reached;
- one other funder transaction;
- at most two debits, so a payment can be followed by a merge.

The actions include every disjunct: every error branch, both submission results
and every signer combination.

In the audit model there are up to four added signers. That is enough for the
honest three plus one extra or duplicate. Signers come in every Horizon order.
Refund transactions differ in each field that the audit checks.

The extraction runs (`MC_SecretExtraction`) use the participant's leg with one
amount, at most two debits and no other funder transactions. `extract_sound`
has one third-party credit and a page of 3, which is enough for a credit, a
payment and a merge to fit. The violation runs scale the page down to 2
instead of 100: `extract_page_limit` needs two credits before the redeem to
show the effect being pushed off. The cause, a fixed page with no paging, does
not depend on the size. Hash arguments come in lower case only, except in
`extract_upper_hex`.

### Findings

1. **Stranded escrow** (`leg_stranded`, code bug). `createAtomicSwapHoldingAccount`
   can fail after the CreateAccount has applied, and the caller drops the holding
   key pair (the TODO at line 489). The funds then sit in an account with master
   weight 1 whose key nobody has. Three paths lead there:
   - a lost reply to the create;
   - a failed read or SetOptions;
   - an amount between 1 and 2.5 XLM, which funds the account but not the reserve
     of three signers.

   Spec §3 says the holding account is destroyed exactly once, by redeem or
   refund.
2. **Audit accepts a live master key** (`audit_live_master`, spec divergence).
   The loop skips only weight-0 signers and classifies the master key as an
   ed25519 signer. An account with master weight 1 and no recipient signer
   therefore passes, with the holding address reported as the recipient. The
   funder holds that key and can take the funds with the secret. Spec §8.2 says
   the audit must reject a master weight other than 0. `AuditSound` still holds,
   because the reported recipient is that key: the tool reports the danger
   correctly, but does not reject it.
3. **Split redeem hides the secret** (`extract_split`, spec gap). The recipient
   can pay itself part of the escrow with the secret, then merge. After that,
   `extractsecret` always returns "Multiple spending transactions found" (the
   TODO at line 781), although the secret is on the ledger. Spec §8.5 makes
   this error deliberate, while §2 and §8.1 promise the funder recovers the
   secret. In the participant's leg the initiator's lock time keeps running.
4. **Effects page limit** (`extract_page_limit`, code bug). The command reads
   only the first 100 effects, oldest first, and never pages (line 860).
   Anyone can pay dust into the holding account before the redeem. Each
   payment adds an `account_credited` effect, and enough of them push the
   redeem's `account_debited` off the page. The tool then reports the account
   as not redeemed.
5. **Upper-case hash argument** (`extract_upper_hex`, spec divergence). The
   argument is compared as a string with lower-case `%x` output (line 795).
   The same hash in upper case, which is valid hex and which `participate`
   accepts, gives "Unable to find the matching secret".

## Fairness

The safety runs assume none. The commands are single blocking attempts
without retries (spec §5), and the parties may stop at any time.

`leg_refund_live` uses `LiveSpec == Spec /\ WF_vars(Tick) /\ WF_vars(Refund)`:

- Ledgers keep closing, so time passes the lock time.
- The funder runs `refund` whenever the pre-built refund is valid. This is the
  use the tool prescribes (spec §2), not something the code enforces, and
  `RefundLive` is conditional on it.

No fairness is assumed for the recipient, the third parties or the builder.

## Proofs (TLAPS)

### The swap leg (`AtomicSwapLegProofs`)

The proofs hold for every value of the constants, under these assumptions:

- the holding key is not a party's key;
- `Role` is one of the two roles;
- the amounts, times and bounds are natural numbers.

The theorems are `TypeCorrect`, `EscrowSafe` (`Spec => []EscrowPaysOnlyByRules`),
`RefundReservedThm` (`Spec => []RefundReserved`) and `IInvInvariant`.

Neither property is inductive on its own. The inductive invariant `IInv`, which
was also model-checked, adds the following:

- `BuildPhase`: while the builder runs, the account exists with master weight 1,
  threshold 0 and no signers. Together with the key staying in memory, this shows
  nobody else can spend during the build (`NoSpendDuringBuild`).
- `RefundAhead` and `CfgFresh`: the refund is two numbers ahead of the account
  until the configuration applies, and the configuration read is current.
- `LiveConfig`: after success, the live account has exactly the swap's signers,
  master weight 0 and threshold 2.
- `LiveAfterDone`: a debit counted against the rules happens only after success,
  which is when the refund transaction is fixed.

The core lemma is `SwapAuth`. With the swap's signers and threshold 2, any
authorisation needs the recipient with the secret, or the pre-authorised refund.
It rests on `WeightAtMostOne`, a weight bound proved with `FiniteSetTheorems`.

`RefundReserved` follows because a payment without the secret is never valid
(`NoPaymentWithoutSecret`). A payment with it sets `revealed`, and merges remove
the account.

The proof has one step lemma per action, and the theorems close by PTL. All
obligations are checked by `tlapm`.

### The refinement (`LegRefinementProofs`)

`THEOREM Refinement == Spec => AbsSpec` holds under one further assumption,
`LockTime >= 2`. The code computes the lock time as `time.Now()` plus a
positive duration, so the halved lock time of the participant is still
positive.

The step proof needs `IInv` and a further invariant, `RefInv`:

- `RefundNext`: until something is paid out, the refund is the account's next
  transaction.
- `RefundUsedUp`: once something is paid out, the refund's number is used up.
  Because of this, a refund never follows a claim.
- `RefundMerged`: an applied refund removed the account.
- `ClaimKeys`: a live debit other than the refund is signed by exactly the
  recipient (`ClaimSigners`, from `SwapAuth` and the rule that every
  signature must be used).

`RedeemUnbounded` covers the redeem's merge, which has no time bound (line
726).

The lemma `RefStep` has one case per action:

- the builder's steps map to `Lock`, `Abort` or a stutter;
- a live claim by the redeem or by `Spend` maps to `Claim` (`ClaimStep`);
- the refund maps to `RefundEscrow` (`RefundEscrowStep`);
- a debit before success is a stutter, or `Reveal` when it publishes the
  secret.

The invariants and the mapping were model-checked before they were proved.

### The audit (`AuditContractProofs`)

`AuditSoundThm` (`Spec => []AuditSound`) and `AuditCompleteThm`
(`Spec => []AuditComplete`) hold for every set of candidate signers,
thresholds, master weights and refund transactions. They rest on two
assumptions, both justified by the code and the ledger:

- `MasterWeights \subseteq Nat`, and every candidate signer is a typed key
  with a natural weight (`CandidatesAssumption`). This is how Horizon reports
  signers.
- No added `ed25519` signer has the holding account's own key. stellar-core
  rejects that `SetOptions` with `SET_OPTIONS_BAD_SIGNER`, so the master key
  appears in Horizon's list only once, with the master weight.

Neither property is inductive: the loop over signers returns early on some
signers and fills slots on others. The inductive invariant `AuditInv` was
model-checked on the `audit` instance (241,968 states) before it was proved.
It says:

- the slots are empty until the thresholds are checked;
- from then on the thresholds are all 2;
- every visited signer of positive weight is `Recorded`, meaning it is the
  recipient, the hash or the refund hash, with weight 1, 1 or 2;
- every filled slot comes from such a visited signer (`SlotFrom`);
- at `final` and `ok` every signer has been visited, and at `ok` the refund
  transaction matches.

The argument for `AuditSound` runs as follows. At `ok`, every signer of
positive weight is recorded. The master key has weight 0, or weight 1 as
the recipient. A set of keys without both the recipient and the secret can
therefore gather at most weight 1, unless it is the checked refund
transaction.

`AuditComplete` is preserved together with `AuditInv`. In the honest account
each kind of signer appears once with positive weight, so its slot is still
empty when the loop reaches it, and no early return fires.

### Secret extraction (`SecretExtractionProofs`)

`ExtractSoundThm` (`ExtractSpec => []ExtractSound`) extends the leg's
invariant with `ExtractInv`, which was model-checked on the `extract_sound`
instance. `ExtractInv` adds:

- the feed holds one `account_debited` effect per debit and at most
  `MaxCredits` credits;
- the page count `DebitedInPage` is at most `Len(debits)` (`PageBound`);
- a found secret was seen in some debit.

The module states `DebitedInPage` as the cardinality of the debited
positions among the first `FirstPageLen` effects, which is what the loop of
`GetAccountDebitediTransactions` counts. Lemmas `PosAppend`, `CardAppend`
and `LenSplit` follow these counts through an `Append`.

One assumption is added, `SignaturesAssumption`: no preimage is a party's
key. A 64-byte ed25519 signature cannot be a 32-byte preimage.

`ExtractRecovers` is not proved. It fails for the program as written: an
upper-case hash never matches (`extract_upper_hex`), and payments into the
account can push the debit off the single page of effects
(`extract_page_limit`). A theorem would need hypotheses on the constants that
exclude exactly these two failures, and the code guarantees neither. The
property therefore stays a model-checked statement. `extract_sound` checks it
on an instance inside its working range, and the two violation runs check it
at the points where it breaks.

### What stays model-checked only

- `RefundLive` is a liveness property under fairness. TLAPS cannot check
  liveness or `ENABLED` here.
- `ExtractRecovers`, for the reason just given.
- `AuditRejectsLiveMaster`, `NoStrandedEscrow`, `SecretRecoverable` and the
  `ExtractRecovers` violations are runs that find counterexamples. They show
  that the code falls short of what was claimed, so there is nothing to prove.

## Not modelled, and why

- **Network passphrase, strkey encoding, XDR and JSON/text output.** Conversions
  whose results only matter through hash equality, which is modelled as identity
  of the hashed values.
- **The cross-chain protocol.** The other chain appears only as `Reveal`; the
  asymmetry of the two lock times is not checked.
