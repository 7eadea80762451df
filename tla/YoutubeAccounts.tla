-------------------------- MODULE YoutubeAccounts --------------------------
(***************************************************************************)
(* A connected channel and its sealed tokens (youtube.rs, credentials.rs   *)
(* and the OAuth tables of db.rs): consent, refreshing, disconnecting and  *)
(* the operator's read-only audit, each on a thread of its own.            *)
(*                                                                         *)
(* One user, one channel, one broadcast that uses it.  Refresh tokens are  *)
(* numbered as Google mints them.  Access tokens are left out: any call    *)
(* may find the cached one expired, or answered 401, and refresh.          *)
(***************************************************************************)
EXTENDS Naturals, FiniteSets

CONSTANTS Threads,      \* request handlers, workers' watches, the audit
          MaxAccounts,  \* bound: account rows ever made
          MaxTokens     \* bound: refresh tokens ever minted

ASSUME TokensAssumption == MaxAccounts \in Nat /\ MaxTokens \in Nat

VARIABLES
    account,  \* the row of the channel, 0 when it is not connected
    sealed,   \* account id -> its sealed refresh token, 0 when there is none
    owner,    \* the account id on the broadcast's row, 0 before provisioning
    google,   \* Google: refresh tokens minted, and those it still honours
    states,   \* consent attempts: open ones
    call,     \* thread -> what it is doing
    lost      \* history: account ids that have lost a token since one was sealed

accountVars == <<account, sealed, owner, google, states, call, lost>>

Ids == 1..MaxAccounts
Resting == [pc |-> "idle", acct |-> 0, token |-> 0, readonly |-> FALSE]
On(t, pc) == call[t].pc = pc
Move(t, pc) == call' = [call EXCEPT ![t].pc = pc]
Rest(t) == call' = [call EXCEPT ![t] = Resting]
Loses(t) == lost' = lost \cup {call[t].acct}
MadeIds == {a \in Ids : sealed[a] # 0 \/ a \in {account, owner} \/ \E t \in Threads : call[t].acct = a}

----------------------------------------------------------------------------
(* A call to YouTube needs a token: when the cached one will not do, one   *)
(* from a refresh.  The audit refreshes only when it was told it may.      *)

access_token(t, readonly) ==
    /\ On(t, "idle") /\ owner # 0
    /\ sealed[owner] # 0
    /\ call' = [call EXCEPT ![t] = [pc |-> "refresh", acct |-> owner,
                                    token |-> sealed[owner], readonly |-> readonly]]
    /\ UNCHANGED <<account, sealed, owner, google, states, lost>>

(* Google answers with an access token, or does not answer: that is all    *)
(* the call wanted.  Now and then it has put a new refresh token in place  *)
(* of the old one, in an answer that arrives or is lost on the way.        *)
GoogleAnswers(t) ==
    /\ On(t, "refresh")
    /\ \/ Rest(t) /\ UNCHANGED <<google, lost>>
       \/ LET n == google.minted + 1 IN
          /\ call[t].token \in google.honoured /\ n <= MaxTokens
          /\ google' = [minted |-> n, honoured |-> (google.honoured \ {call[t].token}) \cup {n}]
          /\ \/ call' = [call EXCEPT ![t].pc = "rotate", ![t].token = n] /\ UNCHANGED lost
             \/ Rest(t) /\ Loses(t)
    /\ UNCHANGED <<account, sealed, owner, states>>

\* Mutant: a rotated refresh token is dropped.
mut_refresh_access_token(t) ==
    /\ On(t, "rotate")
    /\ Rest(t)
    /\ UNCHANGED <<account, sealed, owner, google, states, lost>>

(* What a call holds is sealed under its account's name, whether or not    *)
(* the row is still there; or sealing fails, which ends the call as well.  *)
Seals(t) ==
    /\ \/ /\ sealed' = [sealed EXCEPT ![call[t].acct] = call[t].token]
          /\ lost' = lost \ {call[t].acct}
       \/ Loses(t) /\ UNCHANGED sealed
    /\ Rest(t)

(* A new one is sealed before anything else; the audit cannot. *)
refresh_access_token(t) ==
    /\ On(t, "rotate")
    /\ \/ ~call[t].readonly /\ Seals(t)
       \/ call[t].readonly /\ Loses(t) /\ Rest(t) /\ UNCHANGED sealed
    /\ UNCHANGED <<account, owner, google, states>>

----------------------------------------------------------------------------
(* Consent: a single-use state, the exchange of the code, the row of the   *)
(* channel (looked up, then written) and the sealing of its tokens.        *)

create_oauth_state ==
    /\ ~states
    /\ states' = TRUE
    /\ UNCHANGED <<account, sealed, owner, google, call, lost>>

claim_oauth_state(t) ==
    /\ On(t, "idle") /\ states
    /\ states' = FALSE
    /\ Move(t, "exchange")
    /\ UNCHANGED <<account, sealed, owner, google, lost>>

ExchangeCode(t) ==
    /\ On(t, "exchange")
    /\ \/ /\ google.minted < MaxTokens
          /\ LET n == google.minted + 1 IN
             /\ google' = [minted |-> n, honoured |-> google.honoured \cup {n}]
             /\ call' = [call EXCEPT ![t].pc = "lookup", ![t].token = n]
       \/ Rest(t) /\ UNCHANGED google
    /\ UNCHANGED <<account, sealed, owner, states, lost>>

(* The channel's name may not be told.  A channel that has a row keeps its *)
(* id; another gets a new one.                                             *)
LookUpAccount(t) ==
    /\ On(t, "lookup")
    /\ \/ \E a \in IF account # 0 THEN {account} ELSE Ids \ MadeIds :
             call' = [call EXCEPT ![t].pc = "write", ![t].acct = a]
       \/ Rest(t)
    /\ UNCHANGED <<account, sealed, owner, google, states, lost>>

(* One row per channel: the later of two new ones is refused, and any      *)
(* write may fail.                                                         *)
upsert_youtube_account(t) ==
    /\ On(t, "write")
    /\ \/ account \in {0, call[t].acct} /\ account' = call[t].acct /\ Move(t, "seal")
       \/ Rest(t) /\ UNCHANGED account
    /\ UNCHANGED <<sealed, owner, google, states, lost>>

complete_consent(t) ==
    /\ On(t, "seal")
    /\ Seals(t)
    /\ UNCHANGED <<account, owner, google, states>>

(* A broadcast is provisioned on the connected account and keeps its id. *)
provision_on_account ==
    /\ owner = 0 /\ account # 0
    /\ owner' = account
    /\ UNCHANGED <<account, sealed, google, states, call, lost>>

----------------------------------------------------------------------------
(* Disconnecting: the sealed tokens, which may fail unheeded, then the     *)
(* row, which may fail when the tokens are gone.                           *)

forget_account(t) ==
    /\ On(t, "idle") /\ account # 0
    /\ call' = [call EXCEPT ![t].pc = "unrow", ![t].acct = account]
    /\ sealed' \in {sealed, [sealed EXCEPT ![account] = 0]}
    /\ UNCHANGED <<account, owner, google, states, lost>>

delete_youtube_account(t) ==
    /\ On(t, "unrow")
    /\ \/ account' = (IF account = call[t].acct THEN 0 ELSE account) /\ UNCHANGED lost
       \/ Loses(t) /\ UNCHANGED account
    /\ Rest(t)
    /\ UNCHANGED <<sealed, owner, google, states>>

(* A server that dies loses what its threads held, and leaves what they    *)
(* were taking apart.                                                      *)
ServerDies1 ==
    /\ \E t \in Threads : call[t] # Resting
    /\ lost' = lost \cup {call[t].acct : t \in {u \in Threads :
                                 call[u].pc \in {"rotate", "seal", "unrow"}}}
    /\ call' = [t \in Threads |-> Resting]
    /\ UNCHANGED <<account, sealed, owner, google, states>>

----------------------------------------------------------------------------
AccountsInit ==
    /\ account = 0 /\ sealed = [a \in Ids |-> 0] /\ owner = 0
    /\ google = [minted |-> 0, honoured |-> {}]
    /\ states = FALSE /\ call = [t \in Threads |-> Resting] /\ lost = {}

AccountsNext ==
    \/ create_oauth_state \/ provision_on_account \/ ServerDies1
    \/ \E t \in Threads :
         \/ \E readonly \in BOOLEAN : access_token(t, readonly)
         \/ GoogleAnswers(t) \/ refresh_access_token(t)
         \/ claim_oauth_state(t) \/ ExchangeCode(t) \/ LookUpAccount(t)
         \/ upsert_youtube_account(t) \/ complete_consent(t)
         \/ forget_account(t) \/ delete_youtube_account(t)

AccountsSpec == AccountsInit /\ [][AccountsNext]_accountVars

----------------------------------------------------------------------------
Busy(a) == \E t \in Threads : call[t].acct = a

(* "writing the absent one would disconnect the account for good": with    *)
(* refreshes, reconnections and a disconnection in any order and any call  *)
(* failing, a connected channel's sealed token is one that Google honours. *)
(* It is not when its last new token was lost: with the server, with an    *)
(* answer, in a seal that failed or to an audit that cannot write, or a    *)
(* disconnection stopped half-way; connecting again mends that.            *)
TokenSurvivesRotation ==
    account # 0 /\ ~Busy(account) /\ account \notin lost =>
        sealed[account] \in google.honoured

============================================================================
