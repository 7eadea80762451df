--------------------------- MODULE ServicesProofs ---------------------------
(***************************************************************************)
(* Around a cloud broadcast, for any number of threads, accounts, tokens,  *)
(* cameras, addresses and broadcasts on YouTube: a connected channel keeps *)
(* a token that Google honours, the customer's list holds addresses that   *)
(* were opened, and the channel's side of a broadcast is whole.            *)
(***************************************************************************)
EXTENDS CloudYoutube, YoutubeAccounts, Cctv, FiniteSetTheorems, TLAPS

----------------------------------------------------------------------------
(* The tokens of a channel. *)

TokenSteps == {"idle", "refresh", "rotate", "exchange", "lookup", "write", "seal",
               "unrow"}
TokenCall == [pc : TokenSteps,
              acct : Ids \cup {0}, token : Nat, readonly : BOOLEAN]

AccountsTypeOK ==
    /\ account \in Ids \cup {0} /\ owner \in Ids \cup {0}
    /\ sealed \in [Ids -> Nat]
    /\ google \in [minted : Nat, honoured : SUBSET Nat]
    /\ states \in BOOLEAN
    /\ call \in [Threads -> TokenCall]
    /\ lost \subseteq Ids \cup {0}

\* The steps of a call that is about an account.
OfAccount == {"refresh", "rotate", "write", "seal", "unrow"}

\* A thread that holds a token nobody has stored yet.
Holds(t) == call[t].pc \in {"rotate", "lookup", "write", "seal"}

\* Google numbers its tokens, and no number is in use before it is minted.
Minted(n) == n <= google.minted
OnlyMinted ==
    /\ \A n \in google.honoured : Minted(n)
    /\ \A a \in Ids : Minted(sealed[a])
    /\ \A t \in Threads : Minted(call[t].token)

\* A token that is held is honoured, and nobody else has it.
HeldIsFresh(t) ==
    Holds(t) =>
        /\ call[t].token \in google.honoured
        /\ \A a \in Ids : sealed[a] # call[t].token
        /\ \A u \in Threads \ {t} : call[u].token # call[t].token

\* A refresh was begun with the token of its account, and of no other.
RefreshesItsOwn(t) ==
    call[t].pc = "refresh" =>
        call[t].token # 0 /\ \A a \in Ids : sealed[a] = call[t].token => a = call[t].acct

\* Two accounts have no token in common.
SealedApart == \A a, b \in Ids : sealed[a] = sealed[b] /\ sealed[a] # 0 => a = b

\* A connected channel has a token that is honoured, or a thread is about to
\* store one, or to take the row away, or its last one was lost.
Settles(t, a) == call[t].acct = a /\ call[t].pc \in {"rotate", "seal", "unrow"}
ChannelHasToken ==
    account # 0 => \/ sealed[account] \in google.honoured
                   \/ \E t \in Threads : Settles(t, account)
                   \/ account \in lost

AccountsInv ==
    /\ AccountsTypeOK
    /\ 0 \notin google.honoured
    /\ \A t \in Threads : call[t].pc \in OfAccount => call[t].acct # 0
    /\ OnlyMinted /\ SealedApart /\ ChannelHasToken
    /\ \A t \in Threads : HeldIsFresh(t) /\ RefreshesItsOwn(t)

----------------------------------------------------------------------------
(* The camera catalogue. *)

Camera == [there : BOOLEAN, name : Names, url : Urls \cup {0}, active : BOOLEAN,
           ok : Urls \cup {0}, recent : BOOLEAN]

CctvTypeOK ==
    /\ rows \in [Rows -> Camera]
    /\ bcast \in [source : Rows \cup {0}, url : Urls \cup {0}, desired : BOOLEAN,
                  onair : Urls \cup {0}]
    /\ check \in [id : Rows \cup {0}, url : Urls \cup {0}]
    /\ tick \in [pc : {"idle", "adopt", "stop", "start"}, fresh : Urls \cup {0}]
    /\ past \in [typed : Urls \cup {0}, edits : Nat, edited : BOOLEAN, raced : BOOLEAN]

\* What a check found is about the address that the row still has.
FoundIsCurrent(i) == rows[i].ok # 0 => rows[i].ok = rows[i].url

\* A check under way is of the address of its row, as long as the row is there.
CheckIsCurrent == check.id # 0 /\ rows[check.id].there => check.url = rows[check.id].url

CctvInv ==
    /\ CctvTypeOK
    /\ ~past.raced => CheckIsCurrent /\ \A i \in Rows : FoundIsCurrent(i)

----------------------------------------------------------------------------
(* The tokens: what a step leaves of the calls. *)

Others(t) == \A u \in Threads \ {t} : call'[u] = call[u]

\* A call that moves on is still about its account and its token.
LEMMA MovedOn ==
    ASSUME call \in [Threads -> TokenCall], NEW t \in Threads, NEW pc \in TokenSteps, Move(t, pc)
    PROVE  /\ call' \in [Threads -> TokenCall] /\ Others(t)
           /\ call'[t].pc = pc /\ call'[t].acct = call[t].acct
           /\ call'[t].token = call[t].token /\ call'[t].readonly = call[t].readonly
BY DEF TokenCall, Move, Others

\* A thread at rest holds nothing.
LEMMA RestingIsACall ==
    /\ Resting \in TokenCall
    /\ Resting.pc = "idle" /\ Resting.acct = 0 /\ Resting.token = 0
<1>1. "idle" \in TokenSteps /\ 0 \in Ids \cup {0} /\ 0 \in Nat /\ FALSE \in BOOLEAN
  BY DEF TokenSteps
<1>2. Resting \in TokenCall
  BY <1>1, Zenon DEF Resting, TokenCall
<1>3. QED BY <1>2 DEF Resting

\* A call that ends leaves its thread at rest.
LEMMA Rested ==
    ASSUME call \in [Threads -> TokenCall], NEW t \in Threads, Rest(t)
    PROVE  /\ call' \in [Threads -> TokenCall] /\ Others(t)
           /\ call'[t].pc = "idle" /\ call'[t].acct = 0 /\ call'[t].token = 0
BY RestingIsACall DEF Rest, Others

TakesToken(t, pc, n) == call' = [call EXCEPT ![t].pc = pc, ![t].token = n]
TakesAccount(t, pc, a) == call' = [call EXCEPT ![t].pc = pc, ![t].acct = a]

\* A call that goes on with another token, or about an account.
LEMMA MovedWithToken ==
    ASSUME call \in [Threads -> TokenCall], NEW t \in Threads, NEW pc \in TokenSteps, NEW n \in Nat,
           TakesToken(t, pc, n)
    PROVE  /\ call' \in [Threads -> TokenCall] /\ Others(t)
           /\ call'[t].pc = pc /\ call'[t].acct = call[t].acct /\ call'[t].token = n
           /\ call'[t].readonly = call[t].readonly
<1> DEFINE new == [call[t] EXCEPT !.pc = pc, !.token = n]
<1>1. /\ new \in TokenCall /\ new.pc = pc /\ new.acct = call[t].acct /\ new.token = n
      /\ new.readonly = call[t].readonly
  <2>1. call[t] \in TokenCall
    OBVIOUS
  <2>2. QED BY <2>1 DEF TokenCall
<1>2. call' = [call EXCEPT ![t] = new]
  BY DEF TakesToken
<1> HIDE DEF new
<1>3. QED BY <1>1, <1>2 DEF Others

\* The same of a call that is about an account from now on.
LEMMA MovedToAccount ==
    ASSUME call \in [Threads -> TokenCall], NEW t \in Threads, NEW pc \in TokenSteps,
           NEW a \in Ids \cup {0}, TakesAccount(t, pc, a)
    PROVE  /\ call' \in [Threads -> TokenCall] /\ Others(t)
           /\ call'[t].pc = pc /\ call'[t].acct = a /\ call'[t].token = call[t].token
<1> DEFINE new == [call[t] EXCEPT !.pc = pc, !.acct = a]
<1>1. /\ new \in TokenCall /\ new.pc = pc /\ new.acct = a /\ new.token = call[t].token
  <2>1. call[t] \in TokenCall
    OBVIOUS
  <2>2. QED BY <2>1 DEF TokenCall
<1>2. call' = [call EXCEPT ![t] = new]
  BY DEF TakesAccount
<1> HIDE DEF new
<1>3. QED BY <1>1, <1>2 DEF Others

----------------------------------------------------------------------------
(* What a step owes. *)

\* A thread goes on, and no token is minted, stored or taken away: it keeps
\* what it holds, or lets it go.
LEMMA QuietTokenStep ==
    ASSUME AccountsInv, AccountsTypeOK', NEW t \in Threads, Others(t),
           UNCHANGED <<account, sealed, google>>, lost \subseteq lost',
           call'[t].token \in {0, call[t].token},
           call'[t].pc \in OfAccount => call'[t].acct # 0,
           Holds(t)' => Holds(t) /\ call'[t].token = call[t].token,
           call'[t].pc # "refresh",
           account # 0 /\ Settles(t, account) => Settles(t, account)' \/ account \in lost'
                                                 \/ sealed[account] \in google.honoured
    PROVE  AccountsInv'
<1>1. OnlyMinted'
  <2>1. google.minted \in Nat /\ \A u \in Threads : call[u].token \in Nat
    BY DEF AccountsInv, AccountsTypeOK, TokenCall
  <2>2. \A u \in Threads : Minted(call[u].token)'
    BY <2>1 DEF AccountsInv, OnlyMinted, Minted, Others
  <2>3. QED BY <2>2 DEF AccountsInv, OnlyMinted, Minted
<1>2. SealedApart'
  BY DEF AccountsInv, SealedApart
<1>3. ChannelHasToken'
  BY DEF AccountsInv, ChannelHasToken, Settles, Others
<1>4. ASSUME NEW u \in Threads PROVE HeldIsFresh(u)' /\ RefreshesItsOwn(u)'
  <2>1. CASE u = t
    BY <2>1 DEF AccountsInv, HeldIsFresh, RefreshesItsOwn, Holds, Others
  <2>2. CASE u # t
    <3>1. call[u].token = 0 => ~Holds(u)
      BY DEF AccountsInv, HeldIsFresh
    <3>2. QED BY <2>2, <3>1 DEF AccountsInv, HeldIsFresh, RefreshesItsOwn, Holds, Others
  <2>3. QED BY <2>1, <2>2
<1>5. QED BY <1>1, <1>2, <1>3, <1>4 DEF AccountsInv, Others

\* A token is minted for a call, and the one it was begun with may have gone.
\* The call goes on with the new one, or ends without it.
LEMMA MintStep ==
    ASSUME AccountsInv, AccountsTypeOK', NEW t \in Threads, Others(t), NEW n,
           n = google.minted + 1, NEW gone, google'.minted = n,
           google'.honoured = (google.honoured \ {gone}) \cup {n},
           gone = 0 \/ (call[t].pc = "refresh" /\ gone = call[t].token),
           UNCHANGED <<account, sealed>>, lost \subseteq lost',
           call[t].pc \in {"refresh", "exchange"},
           \/ /\ call'[t].token = n /\ call'[t].acct = call[t].acct
              /\ call'[t].pc = IF gone = 0 THEN "lookup" ELSE "rotate"
           \/ /\ call'[t].token = 0 /\ call'[t].pc = "idle"
              /\ call[t].acct \in lost'
    PROVE  AccountsInv'
<1>1. /\ google.minted \in Nat /\ n \in Nat /\ n > google.minted /\ n # 0
      /\ \A u \in Threads : call[u].token \in Nat
      /\ \A a \in Ids : sealed[a] \in Nat
      /\ google.honoured \subseteq Nat
  BY DEF AccountsInv, AccountsTypeOK, TokenCall
<1>2. /\ n \notin google.honoured /\ \A a \in Ids : sealed[a] # n
      /\ \A u \in Threads : call[u].token # n
  BY <1>1 DEF AccountsInv, OnlyMinted, Minted
<1>3. OnlyMinted'
  <2>1. \A m \in Nat : Minted(m) => Minted(m)'
    BY <1>1 DEF Minted
  <2>2. Minted(n)' /\ Minted(0)'
    BY <1>1 DEF Minted
  <2>3. \A u \in Threads : Minted(call[u].token)'
    BY <1>1, <2>1, <2>2 DEF AccountsInv, OnlyMinted, Others
  <2>4. QED BY <1>1, <2>1, <2>2, <2>3 DEF AccountsInv, OnlyMinted
<1>4. SealedApart' /\ 0 \notin google'.honoured
  BY <1>1 DEF AccountsInv, SealedApart
<1>5. \A a \in Ids : sealed[a] # 0 /\ sealed[a] = gone => Settles(t, a)' \/ a \in lost'
  BY DEF AccountsInv, RefreshesItsOwn, Settles
<1>6. ChannelHasToken'
  <2>1. SUFFICES ASSUME account # 0 PROVE ChannelHasToken'
    BY DEF ChannelHasToken
  <2>2. account \in Ids
    BY <2>1 DEF AccountsInv, AccountsTypeOK
  <2>3. CASE sealed[account] \in google.honoured
    BY <1>5, <2>1, <2>2, <2>3 DEF AccountsInv, ChannelHasToken
  <2>4. ASSUME NEW u \in Threads, Settles(u, account) PROVE u # t /\ Settles(u, account)'
    BY <2>4 DEF Settles, Others
  <2>5. QED BY <2>1, <2>3, <2>4 DEF AccountsInv, ChannelHasToken
<1>7. ASSUME NEW u \in Threads PROVE HeldIsFresh(u)' /\ RefreshesItsOwn(u)'
  <2>1. CASE u = t
    <3>1. \A v \in Threads \ {t} : call'[v].token # n
      BY <1>2 DEF Others
    <3>2. n \in google'.honoured
      OBVIOUS
    <3>3. Holds(t)' => call'[t].token = n
      BY DEF Holds
    <3>4. QED BY <1>2, <2>1, <3>1, <3>2, <3>3 DEF HeldIsFresh, RefreshesItsOwn
  <2>2. CASE u # t
    <3>1. Holds(u) => call[u].token # gone
      BY <2>2 DEF AccountsInv, HeldIsFresh
    <3>2. call[u].token # n
      BY <1>2
    <3>3. QED BY <2>2, <3>1, <3>2 DEF AccountsInv, HeldIsFresh, RefreshesItsOwn, Holds, Others
  <2>3. QED BY <2>1, <2>2
<1>8. QED BY <1>3, <1>4, <1>6, <1>7 DEF AccountsInv, Others, OfAccount

\* A held token is stored under its account, or an account loses its own.
LEMMA StoreStep ==
    ASSUME AccountsInv, AccountsTypeOK', NEW t \in Threads, Others(t), NEW a \in Ids, NEW n \in Nat,
           sealed' = [sealed EXCEPT ![a] = n], UNCHANGED <<account, google>>,
           \/ /\ n = 0 /\ call[t].pc = "idle" /\ UNCHANGED lost
              /\ call'[t].pc = "unrow" /\ call'[t].acct = a /\ call'[t].token = call[t].token
           \/ /\ n = call[t].token /\ Holds(t) /\ call[t].acct = a /\ lost' = lost \ {a}
              /\ call'[t].pc = "idle" /\ call'[t].token = 0
    PROVE  AccountsInv'
<1>1. /\ a # 0 /\ \A b \in Ids : sealed'[b] = IF b = a THEN n ELSE sealed[b]
  BY DEF AccountsInv, AccountsTypeOK, Ids
<1>2. /\ n # 0 => n \in google.honoured /\ (\A b \in Ids : sealed[b] # n)
                  /\ \A u \in Threads \ {t} : call[u].token # n
      /\ google.minted \in Nat
  BY DEF AccountsInv, AccountsTypeOK, HeldIsFresh, Holds
<1>3. OnlyMinted'
  <2>1. Minted(n)' /\ Minted(0)'
    BY <1>2 DEF AccountsInv, OnlyMinted, Minted
  <2>2. call'[t].token = call[t].token \/ call'[t].token = 0
    OBVIOUS
  <2>3. \A u \in Threads : Minted(call[u].token)'
    BY <2>1, <2>2 DEF AccountsInv, OnlyMinted, Minted, Others
  <2>4. QED BY <1>1, <2>1, <2>3 DEF AccountsInv, OnlyMinted, Minted
<1>4. SealedApart'
  BY <1>1, <1>2 DEF AccountsInv, SealedApart
<1>5. ChannelHasToken'
  <2>1. SUFFICES ASSUME account # 0 PROVE ChannelHasToken'
    BY DEF ChannelHasToken
  <2>2. account \in Ids
    BY <2>1 DEF AccountsInv, AccountsTypeOK
  <2>3. CASE account = a
    <3>1. CASE n = 0
      <4>1. ~Holds(t)
        BY <3>1 DEF AccountsInv, HeldIsFresh, Holds
      <4>2. QED BY <2>3, <4>1 DEF ChannelHasToken, Settles
    <3>2. CASE n # 0
      BY <1>1, <1>2, <2>3, <3>2 DEF ChannelHasToken
    <3>3. QED BY <3>1, <3>2
  <2>4. CASE account # a
    <3>1. CASE Settles(t, account)
      BY <2>4, <3>1 DEF Settles
    <3>2. CASE ~Settles(t, account)
      BY <1>1, <2>1, <2>2, <2>4, <3>2 DEF AccountsInv, ChannelHasToken, Settles, Others
    <3>3. QED BY <3>1, <3>2
  <2>5. QED BY <2>3, <2>4
<1>6. ASSUME NEW u \in Threads PROVE HeldIsFresh(u)' /\ RefreshesItsOwn(u)'
  <2>1. CASE u = t
    BY <2>1 DEF HeldIsFresh, RefreshesItsOwn, Holds
  <2>2. CASE u # t
    <3>1. Holds(u) => call[u].token # 0
      BY DEF AccountsInv, HeldIsFresh
    <3>2. QED BY <1>1, <1>2, <2>2, <3>1
          DEF AccountsInv, HeldIsFresh, RefreshesItsOwn, Holds, Others
  <2>3. QED BY <2>1, <2>2
<1>7. call'[t].pc \in OfAccount => call'[t].acct # 0
  BY <1>1 DEF OfAccount
<1>8. QED BY <1>1, <1>3, <1>4, <1>5, <1>6, <1>7 DEF AccountsInv, Others

----------------------------------------------------------------------------
(* The actions. *)

\* A call to YouTube begins, with the token that is sealed.
LEMMA AccessStep ==
    ASSUME AccountsInv, NEW t \in Threads, NEW readonly \in BOOLEAN, access_token(t, readonly)
    PROVE  AccountsInv'
<1> DEFINE new == [pc |-> "refresh", acct |-> owner, token |-> sealed[owner],
                   readonly |-> readonly]
<1>1. /\ owner \in Ids /\ owner # 0 /\ sealed[owner] # 0 /\ sealed[owner] \in Nat
      /\ call' = [call EXCEPT ![t] = new]
      /\ UNCHANGED <<account, sealed, owner, google, states, lost>>
  BY DEF access_token, AccountsInv, AccountsTypeOK
<1>2. "refresh" \in TokenSteps
  BY DEF TokenSteps
<1>3. /\ new \in TokenCall /\ new.pc = "refresh" /\ new.acct = owner
      /\ new.token = sealed[owner]
  BY <1>1, <1>2 DEF TokenCall
<1> HIDE DEF new
<1>4. call' \in [Threads -> TokenCall] /\ call'[t] = new /\ Others(t)
  BY <1>1, <1>3 DEF AccountsInv, AccountsTypeOK, Others
<1>5. AccountsTypeOK'
  BY <1>1, <1>4 DEF AccountsInv, AccountsTypeOK
<1>6. call[t].pc = "idle"
  BY DEF access_token, On
<1>7. OnlyMinted'
  <2>1. \A u \in Threads : Minted(call[u].token)'
    BY <1>1, <1>3, <1>4 DEF AccountsInv, OnlyMinted, Minted, Others
  <2>2. QED BY <1>1, <2>1 DEF AccountsInv, OnlyMinted, Minted
<1>8. SealedApart' /\ ChannelHasToken'
  <2>1. \A u \in Threads, a \in Ids : Settles(u, a) => Settles(u, a)'
    BY <1>4, <1>6 DEF Settles, Others
  <2>2. account # 0 => account \in Ids
    BY DEF AccountsInv, AccountsTypeOK
  <2>3. QED BY <1>1, <2>1, <2>2 DEF AccountsInv, SealedApart, ChannelHasToken
<1>9. ASSUME NEW u \in Threads PROVE HeldIsFresh(u)' /\ RefreshesItsOwn(u)'
  <2>1. CASE u = t
    BY <1>1, <1>3, <1>4, <2>1 DEF AccountsInv, HeldIsFresh, RefreshesItsOwn, Holds, SealedApart
  <2>2. CASE u # t
    BY <1>1, <1>3, <1>4, <2>2 DEF AccountsInv, HeldIsFresh, RefreshesItsOwn, Holds, Others
  <2>3. QED BY <2>1, <2>2
<1>10. QED BY <1>1, <1>3, <1>4, <1>5, <1>7, <1>8, <1>9 DEF AccountsInv, Others

\* Google answers a refresh: an access token, a new refresh token besides, or
\* no.
LEMMA AnswerStep ==
    ASSUME AccountsInv, NEW t \in Threads, GoogleAnswers(t)
    PROVE  AccountsInv'
<1>1. /\ call \in [Threads -> TokenCall] /\ call[t].pc = "refresh" /\ call[t].acct # 0
      /\ call[t].acct \in Ids \cup {0} /\ call[t].token # 0
      /\ google \in [minted : Nat, honoured : SUBSET Nat]
      /\ UNCHANGED <<account, sealed, owner, states>>
  BY DEF GoogleAnswers, On, AccountsInv, AccountsTypeOK, OfAccount, TokenCall, RefreshesItsOwn
<1>2. CASE Rest(t) /\ UNCHANGED <<google, lost>>
  <2>1. /\ call' \in [Threads -> TokenCall] /\ Others(t)
        /\ call'[t].pc = "idle" /\ call'[t].acct = 0 /\ call'[t].token = 0
    BY <1>1, <1>2, Rested
  <2>2. AccountsTypeOK'
    BY <1>1, <1>2, <2>1 DEF AccountsInv, AccountsTypeOK
  <2>3. QED BY <1>1, <1>2, <2>1, <2>2, QuietTokenStep DEF Holds, Settles, OfAccount
<1>3. ASSUME NEW n, n = google.minted + 1,
             google' = [minted |-> n, honoured |-> (google.honoured \ {call[t].token}) \cup {n}],
             \/ call' = [call EXCEPT ![t].pc = "rotate", ![t].token = n] /\ UNCHANGED lost
             \/ Rest(t) /\ Loses(t)
      PROVE  AccountsInv'
  <2>1. n \in Nat /\ google' \in [minted : Nat, honoured : SUBSET Nat]
    BY <1>1, <1>3
  <2>2. google'.minted = n /\ google'.honoured = (google.honoured \ {call[t].token}) \cup {n}
    BY <1>3
  <2>3. CASE call' = [call EXCEPT ![t].pc = "rotate", ![t].token = n] /\ UNCHANGED lost
    <3>1. TakesToken(t, "rotate", n) /\ "rotate" \in TokenSteps
      BY <2>3 DEF TakesToken, TokenSteps
    <3>2. /\ call' \in [Threads -> TokenCall] /\ Others(t)
          /\ call'[t].pc = "rotate" /\ call'[t].acct = call[t].acct /\ call'[t].token = n
      BY <1>1, <2>1, <3>1, MovedWithToken
    <3>3. AccountsTypeOK'
      BY <1>1, <2>1, <2>3, <3>2 DEF AccountsInv, AccountsTypeOK
    <3>4. QED BY <1>1, <1>3, <2>2, <2>3, <3>2, <3>3, MintStep
  <2>4. CASE Rest(t) /\ Loses(t)
    <3>1. /\ call' \in [Threads -> TokenCall] /\ Others(t)
          /\ call'[t].pc = "idle" /\ call'[t].acct = 0 /\ call'[t].token = 0
      BY <1>1, <2>4, Rested
    <3>2. lost' = lost \cup {call[t].acct}
      BY <2>4 DEF Loses
    <3>3. AccountsTypeOK'
      BY <1>1, <2>1, <3>1, <3>2 DEF AccountsInv, AccountsTypeOK
    <3>4. QED BY <1>1, <1>3, <2>2, <3>1, <3>2, <3>3, MintStep
  <2>5. QED BY <1>3, <2>3, <2>4
<1>4. QED BY <1>2, <1>3 DEF GoogleAnswers

\* The code of a consent is exchanged for a new token, or is not.
LEMMA ExchangeStep ==
    ASSUME AccountsInv, NEW t \in Threads, ExchangeCode(t)
    PROVE  AccountsInv'
<1>1. /\ call \in [Threads -> TokenCall] /\ call[t].pc = "exchange"
      /\ google \in [minted : Nat, honoured : SUBSET Nat]
      /\ UNCHANGED <<account, sealed, owner, states, lost>>
  BY DEF ExchangeCode, On, AccountsInv, AccountsTypeOK
<1>2. CASE Rest(t) /\ UNCHANGED google
  <2>1. /\ call' \in [Threads -> TokenCall] /\ Others(t)
        /\ call'[t].pc = "idle" /\ call'[t].acct = 0 /\ call'[t].token = 0
    BY <1>1, <1>2, Rested
  <2>2. AccountsTypeOK'
    BY <1>1, <1>2, <2>1 DEF AccountsInv, AccountsTypeOK
  <2>3. QED BY <1>1, <1>2, <2>1, <2>2, QuietTokenStep DEF Holds, Settles, OfAccount
<1>3. ASSUME NEW n, n = google.minted + 1,
             google' = [minted |-> n, honoured |-> google.honoured \cup {n}],
             call' = [call EXCEPT ![t].pc = "lookup", ![t].token = n]
      PROVE  AccountsInv'
  <2>1. n \in Nat /\ google.honoured \subseteq Nat
    BY <1>1, <1>3
  <2>2. "lookup" \in TokenSteps
    BY DEF TokenSteps
  <2>3. /\ call' \in [Threads -> TokenCall] /\ Others(t)
        /\ call'[t].pc = "lookup" /\ call'[t].acct = call[t].acct /\ call'[t].token = n
    <3>1. TakesToken(t, "lookup", n)
      BY <1>3 DEF TakesToken
    <3>2. QED BY <1>1, <2>1, <2>2, <3>1, MovedWithToken
  <2>4. google' \in [minted : Nat, honoured : SUBSET Nat]
    BY <1>3, <2>1
  <2>5. AccountsTypeOK'
    BY <1>1, <2>3, <2>4 DEF AccountsInv, AccountsTypeOK
  <2>6. google'.minted = n /\ google'.honoured = (google.honoured \ {0}) \cup {n}
    BY <1>3 DEF AccountsInv
  <2>7. QED BY <1>1, <1>3, <2>3, <2>5, <2>6, MintStep
<1>4. QED BY <1>2, <1>3 DEF ExchangeCode

\* A call ends without what it held: it is lost to its account.
LEMMA LosesStep ==
    ASSUME AccountsInv, NEW t \in Threads, call[t].pc \in {"rotate", "seal"},
           Loses(t), Rest(t), UNCHANGED <<account, sealed, owner, google, states>>
    PROVE  AccountsInv'
<1>1. call \in [Threads -> TokenCall] /\ call[t].acct \in Ids \cup {0}
  BY DEF AccountsInv, AccountsTypeOK, TokenCall
<1>2. /\ call' \in [Threads -> TokenCall] /\ Others(t)
      /\ call'[t].pc = "idle" /\ call'[t].acct = 0 /\ call'[t].token = 0
  BY <1>1, Rested
<1>3. lost' = lost \cup {call[t].acct}
  BY DEF Loses
<1>4. AccountsTypeOK'
  BY <1>1, <1>2, <1>3 DEF AccountsInv, AccountsTypeOK
<1>5. QED BY <1>2, <1>3, <1>4, QuietTokenStep DEF Holds, Settles, OfAccount

\* What a call holds is sealed, or sealing fails.
LEMMA SealsStep ==
    ASSUME AccountsInv, NEW t \in Threads, call[t].pc \in {"rotate", "seal"}, Seals(t),
           UNCHANGED <<account, owner, google, states>>
    PROVE  AccountsInv'
<1>1. /\ call \in [Threads -> TokenCall] /\ call[t].acct \in Ids /\ call[t].token \in Nat
      /\ Rest(t)
  <2>1. call[t].acct \in Ids \cup {0} /\ call[t].token \in Nat /\ call[t].acct # 0
    BY DEF AccountsInv, AccountsTypeOK, TokenCall, OfAccount
  <2>2. QED BY <2>1 DEF Seals, AccountsInv, AccountsTypeOK
<1>2. CASE /\ sealed' = [sealed EXCEPT ![call[t].acct] = call[t].token]
           /\ lost' = lost \ {call[t].acct}
  <2>1. /\ call' \in [Threads -> TokenCall] /\ Others(t)
        /\ call'[t].pc = "idle" /\ call'[t].acct = 0 /\ call'[t].token = 0
    BY <1>1, Rested
  <2>2. AccountsTypeOK'
    BY <1>1, <1>2, <2>1 DEF AccountsInv, AccountsTypeOK
  <2>3. Holds(t)
    BY DEF Holds
  <2>4. QED BY <1>1, <1>2, <2>1, <2>2, <2>3, StoreStep
<1>3. QED BY <1>1, <1>2, LosesStep DEF Seals

\* What a refresh brought is stored, or lost by who may not write.
LEMMA RefreshStep ==
    ASSUME AccountsInv, NEW t \in Threads, refresh_access_token(t)
    PROVE  AccountsInv'
BY SealsStep, LosesStep DEF refresh_access_token, On

\* The token of a consent is sealed, or that fails.
LEMMA ConsentStep ==
    ASSUME AccountsInv, NEW t \in Threads, complete_consent(t)
    PROVE  AccountsInv'
BY SealsStep DEF complete_consent, On

\* A disconnection clears the sealed token first, or fails to.
LEMMA ForgetStep ==
    ASSUME AccountsInv, NEW t \in Threads, forget_account(t)
    PROVE  AccountsInv'
<1>1. /\ call \in [Threads -> TokenCall] /\ call[t].pc = "idle"
      /\ account \in Ids /\ account # 0 /\ "unrow" \in TokenSteps
      /\ TakesAccount(t, "unrow", account)
      /\ sealed' \in {sealed, [sealed EXCEPT ![account] = 0]}
      /\ UNCHANGED <<account, owner, google, states, lost>>
  BY DEF forget_account, On, AccountsInv, AccountsTypeOK, TokenSteps, TakesAccount
<1>2. /\ call' \in [Threads -> TokenCall] /\ Others(t)
      /\ call'[t].pc = "unrow" /\ call'[t].acct = account
      /\ call'[t].token = call[t].token
  BY <1>1, MovedToAccount
<1>3. AccountsTypeOK'
  BY <1>1, <1>2 DEF AccountsInv, AccountsTypeOK
<1>4. CASE sealed' = sealed
  BY <1>1, <1>2, <1>3, <1>4, QuietTokenStep DEF Holds, Settles
<1>5. CASE sealed' = [sealed EXCEPT ![account] = 0]
  BY <1>1, <1>2, <1>3, <1>5, StoreStep
<1>6. QED BY <1>1, <1>4, <1>5

\* A consent comes back from Google, or finds the account that it is for.
LEMMA LookUpStep ==
    ASSUME AccountsInv, NEW t \in Threads, claim_oauth_state(t) \/ LookUpAccount(t)
    PROVE  AccountsInv'
<1>1. /\ call \in [Threads -> TokenCall]
      /\ UNCHANGED <<account, sealed, owner, google, lost>>
      /\ states' \in {states, FALSE}
  BY DEF claim_oauth_state, LookUpAccount, AccountsInv, AccountsTypeOK
<1>2. CASE claim_oauth_state(t)
  <2>1. call[t].pc = "idle" /\ Move(t, "exchange") /\ "exchange" \in TokenSteps
    BY <1>2 DEF claim_oauth_state, On, TokenSteps
  <2>2. /\ call' \in [Threads -> TokenCall] /\ Others(t)
        /\ call'[t].pc = "exchange" /\ call'[t].token = call[t].token
    BY <1>1, <2>1, MovedOn
  <2>3. states' \in BOOLEAN
    BY <1>1 DEF AccountsInv, AccountsTypeOK
  <2>4. AccountsTypeOK'
    BY <1>1, <2>2, <2>3 DEF AccountsInv, AccountsTypeOK
  <2>5. QED BY <1>1, <2>1, <2>2, <2>4, QuietTokenStep DEF Holds, Settles, OfAccount
<1>3. CASE LookUpAccount(t) /\ Rest(t)
  <2>1. /\ call' \in [Threads -> TokenCall] /\ Others(t)
        /\ call'[t].pc = "idle" /\ call'[t].token = 0
    BY <1>1, <1>3, Rested
  <2>2. call[t].pc = "lookup" /\ UNCHANGED states
    BY <1>3 DEF LookUpAccount, On
  <2>3. AccountsTypeOK'
    BY <1>1, <2>1, <2>2 DEF AccountsInv, AccountsTypeOK
  <2>4. QED BY <1>1, <2>1, <2>2, <2>3, QuietTokenStep DEF Holds, Settles, OfAccount
<1>4. CASE LookUpAccount(t) /\ ~Rest(t)
  <2>1. PICK a \in Ids : a # 0 /\ TakesAccount(t, "write", a)
    BY <1>4 DEF LookUpAccount, TakesAccount, AccountsInv, AccountsTypeOK, Ids
  <2>2. call[t].pc = "lookup" /\ "write" \in TokenSteps
    BY <1>4 DEF LookUpAccount, On, TokenSteps
  <2>3. /\ call' \in [Threads -> TokenCall] /\ Others(t)
        /\ call'[t].pc = "write" /\ call'[t].acct = a /\ call'[t].token = call[t].token
    BY <1>1, <2>1, <2>2, MovedToAccount
  <2>4. UNCHANGED states
    BY <1>4 DEF LookUpAccount
  <2>5. AccountsTypeOK'
    BY <1>1, <2>3, <2>4 DEF AccountsInv, AccountsTypeOK
  <2>6. QED BY <1>1, <2>1, <2>2, <2>3, <2>5, QuietTokenStep DEF Holds, Settles
<1>5. QED BY <1>2, <1>3, <1>4

\* A thread that is about to settle the account that is connected.
Keeping(t) == Settles(t, account)

\* A channel's row is written, or taken away: the account that is then
\* connected is one whose token is about to be sealed, or was connected.
LEMMA RowStep ==
    ASSUME AccountsInv, AccountsTypeOK', NEW t \in Threads, Others(t),
           UNCHANGED <<sealed, google>>, lost \subseteq lost',
           call'[t].token \in {0, call[t].token},
           call'[t].pc \in OfAccount => call'[t].acct # 0,
           Holds(t)' => Holds(t) /\ call'[t].token = call[t].token,
           call'[t].pc # "refresh",
           \/ account' = 0
           \/ Keeping(t)'
           \/ account' = account /\ (Settles(t, account) => account \in lost')
    PROVE  AccountsInv'
<1>1. OnlyMinted'
  <2>1. google.minted \in Nat /\ \A u \in Threads : call[u].token \in Nat
    BY DEF AccountsInv, AccountsTypeOK, TokenCall
  <2>2. \A u \in Threads : Minted(call[u].token)'
    BY <2>1 DEF AccountsInv, OnlyMinted, Minted, Others
  <2>3. QED BY <2>2 DEF AccountsInv, OnlyMinted, Minted
<1>2. SealedApart'
  BY DEF AccountsInv, SealedApart
<1>3. ChannelHasToken'
  <2>1. CASE account' = 0
    BY <2>1 DEF ChannelHasToken
  <2>2. CASE Keeping(t)'
    BY <2>2 DEF ChannelHasToken, Keeping
  <2>3. CASE account' = account /\ (Settles(t, account) => account \in lost') /\ account # 0
    <3>1. CASE sealed[account] \in google.honoured
      BY <2>3, <3>1 DEF ChannelHasToken
    <3>2. CASE account \in lost \/ account \in lost'
      BY <2>3, <3>2 DEF ChannelHasToken
    <3>3. CASE account \notin lost' /\ \E u \in Threads : Settles(u, account)
      <4>1. PICK u \in Threads : Settles(u, account)
        BY <3>3
      <4>2. u # t /\ call'[u] = call[u]
        BY <2>3, <3>3, <4>1 DEF Others
      <4>3. Settles(u, account)'
        BY <2>3, <4>1, <4>2 DEF Settles
      <4>4. QED BY <4>3 DEF ChannelHasToken
    <3>4. QED BY <2>3, <3>1, <3>2, <3>3 DEF AccountsInv, ChannelHasToken
  <2>4. QED BY <2>1, <2>2, <2>3 DEF ChannelHasToken
<1>4. ASSUME NEW u \in Threads PROVE HeldIsFresh(u)' /\ RefreshesItsOwn(u)'
  <2>1. CASE u = t
    BY <2>1 DEF AccountsInv, HeldIsFresh, RefreshesItsOwn, Holds, Others
  <2>2. CASE u # t
    <3>1. call[u].token = 0 => ~Holds(u)
      BY DEF AccountsInv, HeldIsFresh
    <3>2. QED BY <2>2, <3>1 DEF AccountsInv, HeldIsFresh, RefreshesItsOwn, Holds, Others
  <2>3. QED BY <2>1, <2>2
<1>5. QED BY <1>1, <1>2, <1>3, <1>4 DEF AccountsInv, Others


\* The row of a channel is written, unless another was first.
LEMMA UpsertStep ==
    ASSUME AccountsInv, NEW t \in Threads, upsert_youtube_account(t)
    PROVE  AccountsInv'
<1>1. /\ call \in [Threads -> TokenCall] /\ call[t].pc = "write"
      /\ call[t].acct \in Ids /\ call[t].acct # 0 /\ "seal" \in TokenSteps
      /\ UNCHANGED <<sealed, owner, google, states, lost>>
  <2>1. call[t].acct \in Ids \cup {0}
    BY DEF AccountsInv, AccountsTypeOK, TokenCall
  <2>2. QED BY <2>1 DEF upsert_youtube_account, On, AccountsInv, AccountsTypeOK, OfAccount,
                        TokenSteps
<1>2. CASE account' = call[t].acct /\ Move(t, "seal")
  <2>1. /\ call' \in [Threads -> TokenCall] /\ Others(t)
        /\ call'[t].pc = "seal" /\ call'[t].acct = call[t].acct
        /\ call'[t].token = call[t].token
    BY <1>1, <1>2, MovedOn
  <2>2. AccountsTypeOK'
    BY <1>1, <1>2, <2>1 DEF AccountsInv, AccountsTypeOK
  <2>3. Keeping(t)' /\ Holds(t)
    BY <1>1, <1>2, <2>1 DEF Keeping, Settles, Holds
  <2>4. QED BY <1>1, <2>1, <2>2, <2>3, RowStep
<1>3. CASE Rest(t) /\ UNCHANGED account
  <2>1. /\ call' \in [Threads -> TokenCall] /\ Others(t)
        /\ call'[t].pc = "idle" /\ call'[t].token = 0
    BY <1>1, <1>3, Rested
  <2>2. AccountsTypeOK'
    BY <1>1, <1>3, <2>1 DEF AccountsInv, AccountsTypeOK
  <2>3. ~Settles(t, account) /\ ~Holds(t)'
    BY <1>1, <2>1 DEF Settles, Holds
  <2>4. QED BY <1>1, <1>3, <2>1, <2>2, <2>3, RowStep DEF OfAccount
<1>4. QED BY <1>2, <1>3 DEF upsert_youtube_account

\* A disconnection takes the row away, last.
LEMMA UnrowStep ==
    ASSUME AccountsInv, NEW t \in Threads, delete_youtube_account(t)
    PROVE  AccountsInv'
<1>1. /\ call \in [Threads -> TokenCall] /\ call[t].pc = "unrow" /\ Rest(t)
      /\ UNCHANGED <<sealed, owner, google, states>>
      /\ call[t].acct \in Ids \cup {0} /\ lost \subseteq lost' /\ lost' \subseteq Ids \cup {0}
      /\ account' # 0 => account' = account
      /\ account' = account => account # call[t].acct \/ account = 0 \/ call[t].acct \in lost'
  <2>1. call[t].acct \in Ids \cup {0}
    BY DEF AccountsInv, AccountsTypeOK, TokenCall
  <2>2. lost \subseteq Ids \cup {0}
    BY DEF AccountsInv, AccountsTypeOK
  <2>3. /\ call \in [Threads -> TokenCall] /\ call[t].pc = "unrow" /\ Rest(t)
        /\ UNCHANGED <<sealed, owner, google, states>>
    BY DEF delete_youtube_account, On, AccountsInv, AccountsTypeOK
  <2>4. \/ account' = (IF account = call[t].acct THEN 0 ELSE account) /\ UNCHANGED lost
        \/ lost' = lost \cup {call[t].acct} /\ UNCHANGED account
    BY DEF delete_youtube_account, Loses
  <2>5. QED BY <2>1, <2>2, <2>3, <2>4
<1>2. /\ call' \in [Threads -> TokenCall] /\ Others(t)
      /\ call'[t].pc = "idle" /\ call'[t].token = 0
  BY <1>1, Rested
<1>3. AccountsTypeOK'
  BY <1>1, <1>2 DEF AccountsInv, AccountsTypeOK
<1>4. account' = 0 \/ (account' = account /\ (Settles(t, account) => account \in lost'))
  BY <1>1, Zenon DEF Settles
<1>5. ~Holds(t)'
  BY <1>2 DEF Holds
<1>6. QED BY <1>1, <1>2, <1>3, <1>4, <1>5, RowStep DEF OfAccount

\* A server that dies holds nothing, and says so.
LEMMA DeathStep ==
    ASSUME AccountsInv, ServerDies1
    PROVE  AccountsInv'
<1>1. /\ UNCHANGED <<account, sealed, owner, google, states>>
      /\ call' = [t \in Threads |-> Resting] /\ lost \subseteq lost'
      /\ \A a \in lost' \ lost : \E t \in Threads : call[t].acct = a
      /\ \A t \in Threads : \A a \in Ids : Settles(t, a) => a \in lost'
  BY DEF ServerDies1, Settles
<1>2. AccountsTypeOK'
  <2>1. \A t \in Threads : call[t].acct \in Ids \cup {0}
    BY DEF AccountsInv, AccountsTypeOK, TokenCall
  <2>2. lost' \subseteq Ids \cup {0}
    BY <1>1, <2>1 DEF AccountsInv, AccountsTypeOK
  <2>3. QED BY <1>1, <2>2, RestingIsACall DEF AccountsInv, AccountsTypeOK
<1>3. \A t \in Threads : call'[t].pc = "idle" /\ call'[t].token = 0
  BY <1>1 DEF Resting
<1>4. OnlyMinted'
  BY <1>1, <1>3 DEF AccountsInv, AccountsTypeOK, OnlyMinted, Minted
<1>5. SealedApart' /\ ChannelHasToken'
  <2>1. account # 0 => account \in Ids
    BY DEF AccountsInv, AccountsTypeOK
  <2>2. QED BY <1>1, <2>1 DEF AccountsInv, SealedApart, ChannelHasToken
<1>6. QED BY <1>1, <1>2, <1>3, <1>4, <1>5
           DEF AccountsInv, HeldIsFresh, RefreshesItsOwn, Holds, OfAccount

\* What leaves the tokens, the calls and the channel's row alone.
LEMMA TokensKept ==
    ASSUME AccountsInv, AccountsTypeOK', UNCHANGED <<account, sealed, google, call, lost>>
    PROVE  AccountsInv'
BY DEF AccountsInv, OnlyMinted, Minted, SealedApart, ChannelHasToken, Settles, HeldIsFresh,
       RefreshesItsOwn, Holds

\* At first nothing is connected and nothing was minted.
LEMMA AccountsInvInit ==
    ASSUME AccountsInit PROVE AccountsInv
<1>1. AccountsTypeOK
  BY RestingIsACall, TokensAssumption DEF AccountsInit, AccountsTypeOK, Ids
<1>2. \A t \in Threads : call[t].pc = "idle" /\ call[t].token = 0
  BY DEF AccountsInit, Resting
<1>3. OnlyMinted
  BY <1>2 DEF AccountsInit, OnlyMinted, Minted
<1>4. SealedApart /\ ChannelHasToken
  BY DEF AccountsInit, SealedApart, ChannelHasToken
<1>5. QED BY <1>1, <1>2, <1>3, <1>4
           DEF AccountsInit, AccountsInv, HeldIsFresh, RefreshesItsOwn, Holds, OfAccount

\* Every step keeps all of it.
LEMMA AccountsInvStep ==
    ASSUME AccountsInv, [AccountsNext]_accountVars
    PROVE  AccountsInv'
<1>1. CASE create_oauth_state \/ provision_on_account
  <2>1. AccountsTypeOK' /\ UNCHANGED <<account, sealed, google, call, lost>>
    BY <1>1 DEF create_oauth_state, provision_on_account, AccountsInv, AccountsTypeOK
  <2>2. QED BY <2>1, TokensKept
<1>2. CASE ServerDies1
  BY <1>2, DeathStep
<1>3. ASSUME NEW t \in Threads,
             \/ \E readonly \in BOOLEAN : access_token(t, readonly)
             \/ GoogleAnswers(t) \/ refresh_access_token(t)
             \/ claim_oauth_state(t) \/ ExchangeCode(t) \/ LookUpAccount(t)
             \/ upsert_youtube_account(t) \/ complete_consent(t)
             \/ forget_account(t) \/ delete_youtube_account(t)
      PROVE  AccountsInv'
  BY <1>3, AccessStep, AnswerStep, RefreshStep, LookUpStep, ExchangeStep,
     UpsertStep, ConsentStep, ForgetStep, UnrowStep
<1>4. CASE UNCHANGED accountVars
  <2>1. AccountsTypeOK'
    BY <1>4 DEF accountVars, AccountsInv, AccountsTypeOK
  <2>2. QED BY <1>4, <2>1, TokensKept DEF accountVars
<1>5. QED BY <1>1, <1>2, <1>3, <1>4 DEF AccountsNext

\* With refreshes, consents, disconnections and deaths of the server in any
\* order, any call failing or answering into the void, the tokens on file stay
\* apart, a thread that holds a new one is the only one to hold it, and a
\* connected channel has one that Google honours, or a thread is on its way to
\* store it, or its last one was lost.
THEOREM TokensInvariance == AccountsSpec => []AccountsInv
<1>1. AccountsInit => AccountsInv
  BY AccountsInvInit
<1>2. AccountsInv /\ [AccountsNext]_accountVars => AccountsInv'
  BY AccountsInvStep
<1>3. QED BY <1>1, <1>2, PTL DEF AccountsSpec

\* However its refreshes interleave (refresh_access_token, youtube.rs), a
\* connected channel that nobody is busy with has a token that Google honours,
\* unless the last new one was lost: with the server, with Google's answer, in
\* a seal that failed or to an audit that may not write.
THEOREM ChannelKeepsItsToken == AccountsSpec => []TokenSurvivesRotation
<1>1. AccountsInv => TokenSurvivesRotation
  BY DEF AccountsInv, ChannelHasToken, TokenSurvivesRotation, Settles, Busy
<1>2. QED BY <1>1, TokensInvariance, PTL

----------------------------------------------------------------------------
(* The camera catalogue.  What every operation does to a row is said for   *)
(* one row at a time.                                                      *)

\* A row that is new, and one that is not there, are rows.
LEMMA RowsAreCameras ==
    /\ NoRow0 \in Camera /\ NoRow0.ok = 0
    /\ \A n \in Names, u \in Urls : Row(n, u) \in Camera /\ Row(n, u).ok = 0
<1>1. (CHOOSE n \in Names : TRUE) \in Names
  BY CctvAssumption
<1>2. QED BY <1>1 DEF NoRow0, Row, Camera

\* A row that a check had no part in: new, gone, or as it was but for being on
\* offer and the age of the last check.
Unchecked(i) ==
    \/ rows'[i] \in Camera /\ rows'[i].ok = 0
    \/ /\ rows'[i] \in Camera /\ rows'[i].ok = rows[i].ok
       /\ rows'[i].url = rows[i].url /\ rows'[i].there = rows[i].there

\* The catalogue is rewritten: a check under way is then of what it was.
Rewritten ==
    /\ past' = [past EXCEPT !.raced = @ \/ check.id # 0]
    /\ UNCHANGED <<bcast, check, tick>>

\* What happened before is a record, whether a check was raced or not.
LEMMA RacedIsSaid ==
    ASSUME CctvTypeOK, Rewritten
    PROVE  /\ past' \in [typed : Urls \cup {0}, edits : Nat, edited : BOOLEAN, raced : BOOLEAN]
           /\ ~past'.raced => ~past.raced /\ check.id = 0
<1>1. past \in [typed : Urls \cup {0}, edits : Nat, edited : BOOLEAN, raced : BOOLEAN]
  BY DEF CctvTypeOK
<1>2. CASE past.raced \/ check.id # 0
  <2>1. past' = [past EXCEPT !.raced = TRUE]
    BY <1>1, <1>2 DEF Rewritten
  <2>2. QED BY <1>1, <2>1
<1>3. CASE ~past.raced /\ check.id = 0
  <2>1. past' = [past EXCEPT !.raced = FALSE]
    BY <1>1, <1>3 DEF Rewritten
  <2>2. QED BY <1>1, <1>3, <2>1
<1>4. QED BY <1>2, <1>3

\* Rewriting the catalogue: no row gets a finding that is not its own.
LEMMA RewriteStep ==
    ASSUME CctvInv, Rewritten, DOMAIN rows' = Rows,
           rows' = [i \in Rows |-> rows'[i]], \A i \in Rows : Unchecked(i)
    PROVE  CctvInv'
<1>1. rows' \in [Rows -> Camera]
  BY DEF Unchecked
<1>2. CctvTypeOK'
  BY <1>1, RacedIsSaid DEF CctvInv, CctvTypeOK, Rewritten
<1>3. ~past'.raced => ~past.raced /\ check'.id = 0
  BY RacedIsSaid DEF CctvInv, Rewritten
<1>4. ASSUME ~past'.raced, NEW i \in Rows PROVE FoundIsCurrent(i)'
  BY <1>3, <1>4 DEF CctvInv, FoundIsCurrent, Unchecked
<1>5. ~past'.raced => CheckIsCurrent'
  BY <1>3 DEF CheckIsCurrent
<1>6. QED BY <1>2, <1>4, <1>5 DEF CctvInv

\* A camera is imported: known by its address, by its name, or new.
LEMMA ImportStep ==
    ASSUME CctvInv, NEW n \in Names, NEW u \in Urls, import_one(n, u)
    PROVE  CctvInv'
<1>1. rows \in [Rows -> Camera]
  BY DEF CctvInv, CctvTypeOK
<1>2. PICK k : rows' = [rows EXCEPT ![k] = Row(n, u)]
  BY DEF import_one
<1>3. Rewritten
  BY DEF import_one, Rewritten
<1>4. Row(n, u) \in Camera /\ Row(n, u).ok = 0
  BY RowsAreCameras
<1>5. \A i \in Rows : rows'[i] = Row(n, u) \/ rows'[i] = rows[i]
  BY <1>1, <1>2
<1>6. \A i \in Rows : Unchecked(i)
  BY <1>1, <1>4, <1>5 DEF Unchecked
<1>7. DOMAIN rows' = Rows /\ rows' = [i \in Rows |-> rows'[i]]
  BY <1>1, <1>2
<1>8. QED BY <1>3, <1>6, <1>7, RewriteStep

\* A row is deleted, or duplicates are.
LEMMA RemovalStep ==
    ASSUME CctvInv, NEW i \in Rows, delete_cctv_source(i) \/ dedupe_cctv_sources
    PROVE  CctvInv'
<1>1. rows \in [Rows -> Camera]
  BY DEF CctvInv, CctvTypeOK
<1>2. Rewritten
  BY DEF delete_cctv_source, dedupe_cctv_sources, Rewritten
<1>3. \A j \in Rows : rows'[j] = NoRow0 \/ rows'[j] = rows[j]
  BY <1>1 DEF delete_cctv_source, dedupe_cctv_sources
<1>4. DOMAIN rows' = Rows /\ rows' = [j \in Rows |-> rows'[j]]
  BY <1>1 DEF delete_cctv_source, dedupe_cctv_sources
<1>5. \A j \in Rows : Unchecked(j)
  BY <1>1, <1>3, RowsAreCameras DEF Unchecked
<1>6. QED BY <1>2, <1>4, <1>5, RewriteStep

\* A row is put on offer or taken off it, and checks grow old.
LEMMA OfferStep ==
    ASSUME CctvInv, (\E i \in Rows : set_cctv_source_active(i)) \/ CheckAges
    PROVE  CctvInv'
<1>1. rows \in [Rows -> Camera] /\ UNCHANGED <<bcast, check, tick, past>>
  BY DEF CctvInv, CctvTypeOK, set_cctv_source_active, CheckAges
<1>2. \A j \in Rows : /\ rows'[j] \in Camera /\ rows'[j].ok = rows[j].ok
                      /\ rows'[j].url = rows[j].url /\ rows'[j].there = rows[j].there
  <2>1. ASSUME NEW i \in Rows, set_cctv_source_active(i), NEW j \in Rows
        PROVE  /\ rows'[j] \in Camera /\ rows'[j].ok = rows[j].ok
               /\ rows'[j].url = rows[j].url /\ rows'[j].there = rows[j].there
    <3>1. rows[i] \in Camera /\ rows[j] \in Camera
      BY <1>1
    <3>2. CASE rows[i].active
      <4>1. rows'[j] = IF j = i THEN [rows[i] EXCEPT !.active = FALSE] ELSE rows[j]
        BY <1>1, <2>1, <3>1, <3>2 DEF set_cctv_source_active
      <4>2. QED BY <3>1, <4>1 DEF Camera
    <3>3. CASE ~rows[i].active
      <4>1. rows'[j] = IF j = i THEN [rows[i] EXCEPT !.active = TRUE] ELSE rows[j]
        BY <1>1, <2>1, <3>1, <3>3 DEF set_cctv_source_active
      <4>2. QED BY <3>1, <4>1 DEF Camera
    <3>4. QED BY <3>2, <3>3
  <2>2. ASSUME CheckAges, NEW j \in Rows
        PROVE  /\ rows'[j] \in Camera /\ rows'[j].ok = rows[j].ok
               /\ rows'[j].url = rows[j].url /\ rows'[j].there = rows[j].there
    <3>1. rows[j] \in Camera /\ rows'[j] = [rows[j] EXCEPT !.recent = FALSE]
      BY <1>1, <2>2 DEF CheckAges
    <3>2. QED BY <3>1 DEF Camera
  <2>3. QED BY <2>1, <2>2
<1>3. rows' = [j \in Rows |-> rows'[j]]
  BY <1>1 DEF set_cctv_source_active, CheckAges
<1>4. CctvTypeOK'
  <2>1. rows' \in [Rows -> Camera]
    BY <1>2, <1>3
  <2>2. QED BY <1>1, <2>1 DEF CctvInv, CctvTypeOK
<1>5. (\A j \in Rows : FoundIsCurrent(j)) => \A j \in Rows : FoundIsCurrent(j)'
  BY <1>2 DEF FoundIsCurrent
<1>6. check.id # 0 => check.id \in Rows
  BY DEF CctvInv, CctvTypeOK
<1>7. CheckIsCurrent => CheckIsCurrent'
  BY <1>1, <1>2, <1>6 DEF CheckIsCurrent
<1>8. QED BY <1>1, <1>4, <1>5, <1>7 DEF CctvInv

\* A check reads the address of a row.
LEMMA CheckStep ==
    ASSUME CctvInv, NEW i \in Rows, check_cctv_source(i)
    PROVE  CctvInv'
<1>1. rows[i] \in Camera /\ rows[i].url \in Urls \cup {0}
  <2>1. rows[i] \in Camera
    BY DEF CctvInv, CctvTypeOK
  <2>2. QED BY <2>1 DEF Camera
<1>2. check' = [id |-> i, url |-> rows[i].url] /\ UNCHANGED <<rows, bcast, tick, past>>
  BY DEF check_cctv_source
<1>3. CctvTypeOK'
  BY <1>1, <1>2 DEF CctvInv, CctvTypeOK
<1>4. CheckIsCurrent'
  BY <1>2 DEF CheckIsCurrent
<1>5. QED BY <1>2, <1>3, <1>4 DEF CctvInv, FoundIsCurrent

\* What it found is written to the row, which has that address still.
LEMMA FindingStep ==
    ASSUME CctvInv, record_cctv_check
    PROVE  CctvInv'
<1> DEFINE c == check.id
<1>1. /\ rows \in [Rows -> Camera] /\ c \in Rows /\ c # 0 /\ check.url \in Urls \cup {0}
      /\ check' = [id |-> 0, url |-> 0] /\ UNCHANGED <<bcast, tick, past>>
  BY DEF record_cctv_check, CctvInv, CctvTypeOK
<1>2. PICK found \in test_connection(check.url) :
        rows' = IF rows[c].there /\ found # "refused"
                 THEN [rows EXCEPT ![c].ok = IF found = "camera" THEN check.url ELSE 0,
                                   ![c].recent = found = "camera"]
                 ELSE rows
  BY DEF record_cctv_check
<1>3. rows[c] \in Camera
  BY <1>1
<1>4. \/ rows' = rows
      \/ rows[c].there /\ rows' = [rows EXCEPT ![c] = [rows[c] EXCEPT !.ok = check.url, !.recent = TRUE]]
      \/ rows' = [rows EXCEPT ![c] = [rows[c] EXCEPT !.ok = 0, !.recent = FALSE]]
  <2>1. CASE rows[c].there /\ found = "camera"
    <3>1. found # "refused"
      BY <2>1
    <3>2. (found = "camera") = TRUE
      BY <2>1
    <3>3. rows' = [rows EXCEPT ![c].ok = check.url, ![c].recent = TRUE]
      BY <1>2, <2>1, <3>1, <3>2
    <3>4. QED BY <1>1, <1>3, <2>1, <3>3
  <2>2. CASE rows[c].there /\ found # "camera" /\ found # "refused"
    <3>1. (found = "camera") = FALSE
      BY <2>2
    <3>2. rows' = [rows EXCEPT ![c].ok = 0, ![c].recent = FALSE]
      BY <1>2, <2>2, <3>1
    <3>3. QED BY <1>1, <1>3, <3>2
  <2>3. QED BY <1>2, <2>1, <2>2
<1>5. /\ rows' \in [Rows -> Camera]
      /\ \A i \in Rows \ {c} : rows'[i] = rows[i]
      /\ rows'[c].url = rows[c].url
      /\ rows'[c].ok \in {rows[c].ok, 0} \/ (rows[c].there /\ rows'[c].ok = check.url)
  <2>1. /\ [rows[c] EXCEPT !.ok = check.url, !.recent = TRUE] \in Camera
        /\ [rows[c] EXCEPT !.ok = 0, !.recent = FALSE] \in Camera
        /\ [rows[c] EXCEPT !.ok = check.url, !.recent = TRUE].url = rows[c].url
        /\ [rows[c] EXCEPT !.ok = 0, !.recent = FALSE].url = rows[c].url
        /\ [rows[c] EXCEPT !.ok = check.url, !.recent = TRUE].ok = check.url
        /\ [rows[c] EXCEPT !.ok = 0, !.recent = FALSE].ok = 0
    BY <1>1, <1>3 DEF Camera
  <2>2. QED BY <1>1, <1>4, <2>1
<1>6. CctvTypeOK'
  BY <1>1, <1>5 DEF CctvInv, CctvTypeOK
<1>7. CheckIsCurrent'
  BY <1>1 DEF CheckIsCurrent
<1>8. ASSUME ~past'.raced, NEW i \in Rows PROVE FoundIsCurrent(i)'
  <2>1. CheckIsCurrent /\ FoundIsCurrent(i) /\ FoundIsCurrent(c)
    BY <1>1, <1>8 DEF CctvInv
  <2>2. CASE i = c
    BY <1>1, <1>5, <2>1, <2>2 DEF FoundIsCurrent, CheckIsCurrent
  <2>3. CASE i # c
    BY <1>5, <2>1, <2>3 DEF FoundIsCurrent
  <2>4. QED BY <2>2, <2>3
<1>9. QED BY <1>6, <1>7, <1>8 DEF CctvInv

\* The broadcast, its worker and the tick leave the catalogue alone.
LEMMA CatalogueKept ==
    ASSUME CctvInv, CctvTypeOK', UNCHANGED <<rows, check>>, past'.raced = past.raced
    PROVE  CctvInv'
BY DEF CctvInv, CheckIsCurrent, FoundIsCurrent

\* The owner saves the form.
LEMMA SaveStep ==
    ASSUME CctvInv, NEW s \in Rows \cup {0}, NEW u \in Urls \cup {0}, update_broadcast(s, u)
    PROVE  CctvInv'
<1>1. /\ past \in [typed : Urls \cup {0}, edits : Nat, edited : BOOLEAN, raced : BOOLEAN]
      /\ UNCHANGED <<rows, check, tick>> /\ bcast' = [bcast EXCEPT !.source = s, !.url = u]
      /\ past' = [past EXCEPT !.edits = @ + 1, !.edited = @ \/ bcast.onair # 0,
                              !.typed = IF s = 0 THEN u ELSE 0]
  BY DEF CctvInv, CctvTypeOK, update_broadcast
<1>2. /\ past' \in [typed : Urls \cup {0}, edits : Nat, edited : BOOLEAN, raced : BOOLEAN]
      /\ past'.raced = past.raced
  <2> DEFINE n == past.edits + 1
             w == IF s = 0 THEN u ELSE 0
  <2>1. n \in Nat /\ w \in Urls \cup {0}
    BY <1>1
  <2>2. CASE past.edited \/ bcast.onair # 0
    <3>1. past' = [past EXCEPT !.edits = n, !.edited = TRUE, !.typed = w]
      BY <1>1, <2>2
    <3>2. QED BY <1>1, <2>1, <3>1
  <2>3. CASE ~(past.edited \/ bcast.onair # 0)
    <3>1. past' = [past EXCEPT !.edits = n, !.edited = FALSE, !.typed = w]
      BY <1>1, <2>3
    <3>2. QED BY <1>1, <2>1, <3>1
  <2>4. QED BY <2>2, <2>3
<1>3. CctvTypeOK'
  BY <1>1, <1>2 DEF CctvInv, CctvTypeOK
<1>4. QED BY <1>1, <1>2, <1>3, CatalogueKept

\* The worker starts and stops, the tick hands an address on.
LEMMA WorkerStep ==
    ASSUME CctvInv,
           \/ StartCamera \/ StopCamera \/ RunnerDies
           \/ RefreshReads \/ adopt_cctv_url \/ RefreshRefused \/ RestartStops \/ RestartStarts
    PROVE  CctvInv'
<1> DEFINE Row0 == [source : Rows \cup {0}, url : Urls \cup {0}, desired : BOOLEAN,
                    onair : Urls \cup {0}]
<1>1. /\ bcast \in Row0
      /\ tick \in [pc : {"idle", "adopt", "stop", "start"}, fresh : Urls \cup {0}]
      /\ UNCHANGED <<rows, check, past>>
  BY DEF CctvInv, CctvTypeOK, StartCamera, StopCamera, RunnerDies, RefreshReads, adopt_cctv_url,
         RefreshRefused, RestartStops, RestartStarts
<1>2. resolve_cctv_url \in Urls \cup {0}
  <2>1. bcast.source \in Rows => rows[bcast.source].url \in Urls \cup {0}
    <3>1. \A i \in Rows : rows[i] \in Camera
      BY DEF CctvInv, CctvTypeOK
    <3>2. QED BY <3>1 DEF Camera
  <2>2. QED BY <1>1, <2>1 DEF resolve_cctv_url, There
<1>3. start_worker => bcast' \in Row0
  BY <1>1, <1>2 DEF start_worker
<1>4. bcast' \in Row0
  <2>1. RefreshReads \/ RefreshRefused => bcast' = bcast
    BY DEF RefreshReads, RefreshRefused
  <2>2. adopt_cctv_url => bcast' = [bcast EXCEPT !.url = tick.fresh]
    BY DEF adopt_cctv_url
  <2>3. StopCamera => bcast' = [bcast EXCEPT !.desired = FALSE, !.onair = 0]
    BY DEF StopCamera
  <2>4. RunnerDies \/ RestartStops => bcast' = [bcast EXCEPT !.onair = 0]
    BY DEF RunnerDies, RestartStops
  <2>5. StartCamera \/ RestartStarts => start_worker \/ bcast' = bcast
    BY DEF StartCamera, RestartStarts
  <2>6. QED BY <1>1, <1>3, <2>1, <2>2, <2>3, <2>4, <2>5
<1>5. tick' \in [pc : {"idle", "adopt", "stop", "start"}, fresh : Urls \cup {0}]
  <2>1. RefreshReads => rows[bcast.source].url \in Urls \cup {0}
    <3>1. \A i \in Rows : rows[i] \in Camera
      BY DEF CctvInv, CctvTypeOK
    <3>2. RefreshReads => bcast.source \in Rows
      BY DEF RefreshReads, cctv_urls_needing_refresh, There
    <3>3. QED BY <3>1, <3>2 DEF Camera
  <2>2. QED BY <1>1, <2>1 DEF StartCamera, StopCamera, RunnerDies, RefreshReads, adopt_cctv_url,
         RefreshRefused, RestartStops, RestartStarts
<1>6. CctvTypeOK'
  BY <1>1, <1>4, <1>5 DEF CctvInv, CctvTypeOK
<1>7. QED BY <1>1, <1>6, CatalogueKept

\* A catalogue as it may be found.
LEMMA CctvInvInit ==
    ASSUME CctvInit PROVE CctvInv
<1>1. PICK n, m \in Names : rows = [i \in Rows |-> IF i = 1 THEN Row(n, 1)
                                                ELSE IF i = 2 THEN Row(m, 2) ELSE NoRow0]
  BY DEF CctvInit
<1>2. 1 \in Urls /\ 2 \in Urls /\ 1 \in Rows
  BY CctvAssumption
<1>3. \A i \in Rows : rows[i] \in Camera /\ rows[i].ok = 0
  BY <1>1, <1>2, RowsAreCameras
<1>4. rows \in [Rows -> Camera]
  BY <1>1, <1>3
<1>5. CctvTypeOK
  BY <1>2, <1>4 DEF CctvInit, CctvTypeOK
<1>6. QED BY <1>3, <1>5 DEF CctvInit, CctvInv, CheckIsCurrent, FoundIsCurrent

\* Every step keeps it.
LEMMA CctvInvStep ==
    ASSUME CctvInv, [CctvNext]_cctvVars
    PROVE  CctvInv'
<1>1. 1 \in Rows
  BY CctvAssumption
<1>2. CASE UNCHANGED cctvVars
  <2>1. CctvTypeOK'
    BY <1>2 DEF cctvVars, CctvInv, CctvTypeOK
  <2>2. QED BY <1>2, <2>1, CatalogueKept DEF cctvVars
<1>3. CASE CctvNext
  BY <1>1, <1>3, ImportStep, CheckStep, OfferStep, RemovalStep, FindingStep, SaveStep, WorkerStep
     DEF CctvNext
<1>4. QED BY <1>2, <1>3

\* While nothing rewrites the catalogue under a check, the check is of the
\* address its row has, and what a row says was found is of its own address.
THEOREM CctvInvariance == CctvSpec => []CctvInv
<1>1. CctvInit => CctvInv
  BY CctvInvInit
<1>2. CctvInv /\ [CctvNext]_cctvVars => CctvInv'
  BY CctvInvStep
<1>3. QED BY <1>1, <1>2, PTL DEF CctvSpec

\* "until record_cctv_check has seen FFmpeg open it, it is not offered"
\* (cctv_sources_for_pick, db.rs): the customer's list holds addresses that
\* were opened, unless the catalogue was rewritten while a check was under way.
THEOREM OffersWhatWasOpened == CctvSpec => []OfferedWasOpened
<1>1. CctvInv => OfferedWasOpened
  BY DEF CctvInv, FoundIsCurrent, OfferedWasOpened, cctv_sources_for_pick, There
<1>2. QED BY <1>1, CctvInvariance, PTL

----------------------------------------------------------------------------
(* The channel's side of a broadcast. *)

Lives == {"ready", "testing", "live", "complete"}
Statuses == Lives \cup {"none", "waiting", "error"}
Requests == {"idle", "row", "fill", "insert", "stream", "bind", "dest", "attach", "undo",
             "check", "rebind", "renew", "again", "spawn", "end", "transition", "delete"}

\* The watch has no part in what follows, nor has a broadcast's preview.
RowType ==
    yrow \in [there : BOOLEAN, yb : Nat, ys : Nat, away : BOOLEAN, status : Statuses]
DestType == dest \in [there : BOOLEAN, key : Nat]
RequestType ==
    req \in [pc : Requests, then : {"idle", "undo", "spawn", "delete"}, yb : Nat, ys : Nat]
SeenType ==
    seen \in [since : BOOLEAN, late : BOOLEAN, torn : BOOLEAN, moved : BOOLEAN, meddling : Nat]
TubeType ==
    /\ tube = [life |-> tube.life, bound |-> tube.bound, monitor |-> tube.monitor,
               streams |-> tube.streams]
    /\ tube.life \in [Made -> Lives] /\ tube.bound \in [Made -> Nat] /\ tube.streams \in Nat
    /\ \E n \in Nat : Made = 1..n
YoutubeTypeOK == RowType /\ DestType /\ RequestType /\ SeenType /\ TubeType /\ sender \in Nat

\* A row names a broadcast with a stream of its own, or neither.
RowIsWhole ==
    /\ yrow.yb \in Made \cup {0} /\ (yrow.yb = 0 <=> yrow.ys = 0)
    /\ ~yrow.there => yrow.yb = 0 /\ ~yrow.away

\* What a request holds, and what it is part of.
RequestIsSound ==
    /\ req.pc \in {"stream", "bind", "dest", "attach", "again"} => req.yb \in Made
    /\ req.pc \in {"bind", "dest", "attach"} => req.ys # 0
    /\ req.pc \in {"idle", "check", "rebind", "renew", "again", "spawn"} => req.then = "idle"
    /\ req.pc \in {"row", "fill", "undo"} => req.then = "undo"
    /\ req.pc \in {"insert", "stream", "bind", "dest", "attach"} => req.then \in {"undo", "spawn"}
    /\ req.pc \in {"end", "transition", "delete"} => req.then \in {"idle", "delete"}

\* A create has a destination and, until it is undone, a row without its other
\* half; all else is about a broadcast that has one.
RowIsServed ==
    /\ req.then = "undo" => dest.there /\ ~yrow.away
    /\ req.then = "undo" /\ req.pc # "undo" => yrow.yb = 0 /\ (req.pc # "row" => yrow.there)
    /\ req.then # "undo" /\ req.pc # "idle" => Connected
    /\ sender # 0 => req.pc = "idle" /\ Connected

\* Nothing half-made, unless a write was refused late, undoing failed, or the
\* server died in a create.
HalvesMatch ==
    ~seen.late /\ req.then # "undo" =>
        /\ yrow.there => yrow.yb # 0
        /\ dest.there => dest.key # 0

\* The sealed key is that of the row's stream, but between the two writes; a
\* row that has not been moved has its destination.
KeyIsTheStreams ==
    /\ Connected /\ ~seen.torn /\ dest.there /\ (req.pc = "attach" => yrow.away) => dest.key = yrow.ys
    /\ yrow.there /\ ~yrow.away => dest.there
    /\ req.pc = "attach" /\ ~yrow.away => dest.key = req.ys
    /\ yrow.away => seen.moved
    /\ sender # 0 /\ ~seen.torn => sender = yrow.ys \/ (sender = Elsewhere /\ seen.moved)

\* The broadcast that a start is about to use, or uses, is bound to the stream
\* it goes with, and has not ended, unless that changed on YouTube.
BroadcastIsReady ==
    ~seen.since =>
        /\ sender # 0 \/ req.pc = "spawn" =>
               tube.bound[yrow.yb] = yrow.ys /\ tube.life[yrow.yb] # "complete"
        /\ req.pc = "rebind" => tube.life[yrow.yb] # "complete"
        /\ req.pc \in {"dest", "attach"} => tube.bound[req.yb] = req.ys
        /\ req.pc \in {"stream", "bind", "dest", "attach", "again"} =>
               tube.life[req.yb] # "complete"

YoutubeInv ==
    /\ YoutubeTypeOK
    /\ RowIsWhole /\ RequestIsSound /\ RowIsServed
    /\ HalvesMatch /\ KeyIsTheStreams /\ BroadcastIsReady

\* What the parts of a record are once one of its fields is written.
SameRow ==
    /\ yrow'.there = yrow.there /\ yrow'.yb = yrow.yb /\ yrow'.ys = yrow.ys
    /\ yrow'.away = yrow.away

\* What a step leaves alone keeps its type.
LEMMA TypesKept ==
    ASSUME YoutubeTypeOK
    PROVE  /\ UNCHANGED yrow => RowType' /\ SameRow
           /\ UNCHANGED dest => DestType'
           /\ UNCHANGED req => RequestType'
           /\ UNCHANGED seen => SeenType'
           /\ UNCHANGED tube => TubeType' /\ Made' = Made
           /\ UNCHANGED sender => sender' \in Nat
BY DEF YoutubeTypeOK, RowType, DestType, RequestType, SeenType, TubeType, Made, SameRow

\* Nothing more is lost.
SameLoss == seen'.late = seen.late /\ seen'.torn = seen.torn /\ seen'.moved = seen.moved

\* A write refused late is noted.
LEMMA LateNoted ==
    ASSUME SeenType, seen' = [seen EXCEPT !.late = TRUE]
    PROVE  /\ SeenType' /\ seen'.late /\ seen'.since = seen.since
           /\ seen'.torn = seen.torn /\ seen'.moved = seen.moved
BY DEF SeenType

\* So is that the row and the key agree again, or not, and that the row points
\* where its other half goes.
LEMMA KeyNoted ==
    ASSUME SeenType, NEW torn \in BOOLEAN, NEW moved \in BOOLEAN,
           seen' = [seen EXCEPT !.torn = torn, !.moved = moved]
    PROVE  /\ SeenType' /\ seen'.torn = torn /\ seen'.moved = moved
           /\ seen'.since = seen.since /\ seen'.late = seen.late
BY DEF SeenType

\* And that YouTube changed a broadcast.
LEMMA MeddledNoted ==
    ASSUME SeenType, Meddled
    PROVE  SeenType' /\ seen'.since /\ SameLoss
<1> DEFINE n == seen.meddling + 1
<1>1. n \in Nat
  BY DEF SeenType
<1>2. seen' = [seen EXCEPT !.meddling = n, !.since = TRUE]
  BY DEF Meddled
<1> HIDE DEF n
<1>3. QED BY <1>1, <1>2 DEF SeenType, SameLoss

\* The status of the row says nothing of its halves.
LEMMA StatusWritten ==
    ASSUME RowType, NEW s \in Statuses, set_youtube_status(s)
    PROVE  SameRow /\ RowType'
BY DEF RowType, SameRow, set_youtube_status

\* A failed call may be written to the row.
LEMMA Explained ==
    ASSUME RowType, explain \/ UNCHANGED yrow
    PROVE  SameRow /\ RowType'
<1>1. "error" \in Statuses
  BY DEF Statuses
<1>2. CASE UNCHANGED yrow
  BY <1>2 DEF SameRow, RowType
<1>3. CASE yrow' = [yrow EXCEPT !.status = "error"]
  BY <1>1, <1>3, StatusWritten DEF set_youtube_status
<1>4. QED BY <1>2, <1>3 DEF explain

\* A request goes on, keeping what it holds.
LEMMA WentTo ==
    ASSUME RequestType, NEW pc \in Requests, Goto(pc)
    PROVE  /\ RequestType' /\ req'.pc = pc /\ req'.then = req.then
           /\ req'.yb = req.yb /\ req'.ys = req.ys
BY DEF RequestType, Goto

\* A request is at a step without holding anything.
LEMMA Holding ==
    ASSUME NEW pc \in Requests, req' = [Idle0 EXCEPT !.pc = pc]
    PROVE  /\ RequestType' /\ req'.pc = pc /\ req'.then = "idle"
           /\ req'.yb = 0 /\ req'.ys = 0
BY DEF RequestType, Idle0

\* A request that is over holds nothing.
LEMMA Finished ==
    ASSUME Finish
    PROVE  /\ RequestType' /\ req'.pc = "idle" /\ req'.then = "idle"
           /\ req'.yb = 0 /\ req'.ys = 0
<1>1. "idle" \in Requests
  BY DEF Requests
<1>2. QED BY <1>1 DEF RequestType, Idle0, Finish

\* A broadcast is made on YouTube: it is ready, and bound to nothing.
LEMMA BroadcastMade ==
    ASSUME TubeType, RequestType, NEW then \in Requests, create_broadcast_on_youtube(then)
    PROVE  \E y \in Nat \ {0} :
             /\ y \notin Made /\ Made' = Made \cup {y} /\ TubeType'
             /\ tube'.life[y] = "ready"
             /\ \A b \in Made : tube'.life[b] = tube.life[b] /\ tube'.bound[b] = tube.bound[b]
             /\ RequestType' /\ req'.pc = then /\ req'.then = req.then
             /\ req'.yb = y /\ req'.ys = req.ys
<1>1. PICK n \in Nat : Made = 1..n
  BY DEF TubeType
<1>2. Cardinality(Made) = n
  BY <1>1, FS_Interval
<1> DEFINE y == n + 1
           bl == [b \in Made \cup {y} |-> IF b = y THEN "ready" ELSE tube.life[b]]
           bb == [b \in Made \cup {y} |-> IF b = y THEN 0 ELSE tube.bound[b]]
           bm == [b \in Made \cup {y} |-> IF b = y THEN FALSE ELSE tube.monitor[b]]
<1>3. y \in Nat \ {0} /\ y \notin Made /\ Made \cup {y} = 1..y
  BY <1>1
<1>4. tube' = [life |-> bl, bound |-> bb, monitor |-> bm, streams |-> tube.streams]
  BY <1>2 DEF create_broadcast_on_youtube, TubeType
<1>5. /\ bl \in [Made \cup {y} -> Lives] /\ bb \in [Made \cup {y} -> Nat]
      /\ bl[y] = "ready" /\ \A b \in Made : bl[b] = tube.life[b] /\ bb[b] = tube.bound[b]
  BY <1>3 DEF TubeType, Lives
<1> HIDE DEF bl, bb, bm
<1>6. tube'.life = bl /\ tube'.bound = bb /\ Made' = Made \cup {y}
  BY <1>4, <1>5 DEF Made
<1>7. TubeType'
  BY <1>3, <1>4, <1>5, <1>6 DEF TubeType
<1>8. req' = [req EXCEPT !.pc = then, !.yb = y]
  BY <1>2 DEF create_broadcast_on_youtube
<1>9. /\ RequestType' /\ req'.pc = then /\ req'.then = req.then
      /\ req'.yb = y /\ req'.ys = req.ys
  BY <1>3, <1>8 DEF RequestType
<1>10. QED BY <1>3, <1>5, <1>6, <1>7, <1>9

\* A broadcast on YouTube changes its life.
LEMMA LifeSet ==
    ASSUME TubeType, NEW y \in Made, NEW l \in Lives, tube' = [tube EXCEPT !.life[y] = l]
    PROVE  /\ TubeType' /\ Made' = Made /\ tube'.bound = tube.bound
           /\ \A b \in Made : tube'.life[b] = IF b = y THEN l ELSE tube.life[b]
<1>1. tube' = [tube EXCEPT !.life = [tube.life EXCEPT ![y] = l]]
  BY DEF TubeType
<1>2. /\ tube'.life = [tube.life EXCEPT ![y] = l] /\ tube'.bound = tube.bound
      /\ tube'.monitor = tube.monitor /\ tube'.streams = tube.streams
      /\ tube' = [life |-> tube'.life, bound |-> tube'.bound, monitor |-> tube'.monitor,
                  streams |-> tube'.streams]
  BY <1>1 DEF TubeType
<1>3. Made' = Made
  BY <1>2 DEF TubeType, Made
<1>4. tube'.life \in [Made -> Lives]
  BY <1>2 DEF TubeType
<1>5. QED BY <1>2, <1>3, <1>4 DEF TubeType

\* A broadcast on YouTube is bound to a stream, or to none.
LEMMA Bound ==
    ASSUME TubeType, NEW y \in Made, NEW s \in Nat, tube' = [tube EXCEPT !.bound[y] = s]
    PROVE  /\ TubeType' /\ Made' = Made /\ tube'.life = tube.life
           /\ \A b \in Made : tube'.bound[b] = IF b = y THEN s ELSE tube.bound[b]
<1>1. tube' = [tube EXCEPT !.bound = [tube.bound EXCEPT ![y] = s]]
  BY DEF TubeType
<1>2. /\ tube'.bound = [tube.bound EXCEPT ![y] = s] /\ tube'.life = tube.life
      /\ tube'.monitor = tube.monitor /\ tube'.streams = tube.streams
      /\ tube' = [life |-> tube'.life, bound |-> tube'.bound, monitor |-> tube'.monitor,
                  streams |-> tube'.streams]
  BY <1>1 DEF TubeType
<1>3. Made' = Made
  BY <1>2 DEF Made
<1>4. tube'.bound \in [Made -> Nat]
  BY <1>2 DEF TubeType
<1>5. QED BY <1>2, <1>3, <1>4 DEF TubeType

\* A part of provision failed: a new broadcast is undone, a start is over.
LEMMA Failed ==
    ASSUME RowType, RequestType, Fails0, explain \/ UNCHANGED yrow
    PROVE  /\ RowType' /\ SameRow /\ RequestType'
           /\ \/ req.then = "undo" /\ req'.pc = "undo" /\ req'.then = "undo"
              \/ req.then # "undo" /\ req'.pc = "idle" /\ req'.then = "idle"
<1>1. "undo" \in Requests
  BY DEF Requests
<1>2. CASE req.then = "undo"
  BY <1>1, <1>2, WentTo, Explained DEF Fails0
<1>3. CASE req.then # "undo"
  BY <1>3, Finished, Explained DEF Fails0
<1>4. QED BY <1>2, <1>3

\* A create: the destination is reserved.
LEMMA ReserveStep ==
    ASSUME YoutubeInv, reserve_youtube_destination
    PROVE  YoutubeInv'
<1>1. /\ YoutubeTypeOK /\ RowType /\ DestType /\ RequestType /\ SeenType /\ TubeType
  BY DEF YoutubeInv, YoutubeTypeOK
<1>2. /\ req.pc = "idle" /\ ~yrow.there /\ ~dest.there /\ "row" \in Requests
      /\ dest' = [there |-> TRUE, key |-> 0] /\ req' = [Idle0 EXCEPT !.pc = "row", !.then = "undo"]
      /\ UNCHANGED <<yrow, tube, sender, seen>>
  BY DEF reserve_youtube_destination, At, NoDest, Requests
<1>3. /\ RequestType' /\ req'.pc = "row" /\ req'.then = "undo"
      /\ req'.yb = 0 /\ req'.ys = 0
  BY <1>2 DEF RequestType, Idle0
<1>4. RowType' /\ SameRow /\ SeenType' /\ TubeType' /\ Made' = Made /\ sender' \in Nat
      /\ DestType' /\ dest'.there
  BY <1>1, <1>2, TypesKept DEF DestType
<1>5. YoutubeTypeOK'
  BY <1>1, <1>2, <1>3, <1>4 DEF YoutubeTypeOK
<1>6. RowIsWhole' /\ RequestIsSound'
  BY <1>1, <1>2, <1>3, <1>4
     DEF YoutubeInv, RowIsWhole, RequestIsSound, RowIsServed, Connected, SameRow
<1>7. RowIsServed' /\ HalvesMatch'
  BY <1>1, <1>2, <1>3, <1>4
     DEF YoutubeInv, RowIsWhole, RequestIsSound, RowIsServed, HalvesMatch, KeyIsTheStreams,
         Connected, SameRow
<1>8. KeyIsTheStreams' /\ BroadcastIsReady'
  BY <1>1, <1>2, <1>3, <1>4
     DEF YoutubeInv, RowIsWhole, RequestIsSound, RowIsServed, KeyIsTheStreams,
         BroadcastIsReady, Connected, SameRow
<1>9. QED BY <1>5, <1>6, <1>7, <1>8 DEF YoutubeInv

\* The row is written, or refused.
LEMMA InsertRowStep ==
    ASSUME YoutubeInv, InsertRow
    PROVE  YoutubeInv'
<1>1. /\ YoutubeTypeOK /\ RowType /\ DestType /\ RequestType /\ SeenType /\ TubeType
  BY DEF YoutubeInv, YoutubeTypeOK
<1>2. /\ req.pc = "row" /\ "fill" \in Requests /\ UNCHANGED <<dest, tube, sender>>
      /\ "none" \in Statuses
  BY DEF InsertRow, At, Requests, Statuses
<1>3. /\ RowType' /\ RequestType' /\ SeenType'
      /\ \/ /\ yrow'.there /\ ~yrow'.away /\ yrow'.yb = 0 /\ yrow'.ys = 0 /\ seen' = seen
            /\ req'.pc = "fill" /\ req'.then = req.then
         \/ /\ SameRow /\ req'.pc = "idle" /\ req'.then = "idle"
            /\ seen'.late /\ seen'.since = seen.since
            /\ seen'.torn = seen.torn /\ seen'.moved = seen.moved
  <2>1. CASE yrow' = [NoRow EXCEPT !.there = TRUE] /\ Goto("fill") /\ UNCHANGED seen
    <3>1. RowType' /\ yrow'.there /\ ~yrow'.away /\ yrow'.yb = 0 /\ yrow'.ys = 0
      BY <1>2, <2>1 DEF NoRow, RowType
    <3>2. QED BY <1>1, <1>2, <2>1, <3>1, WentTo, TypesKept
  <2>2. CASE Finish /\ seen' = [seen EXCEPT !.late = TRUE] /\ UNCHANGED yrow
    BY <1>1, <2>2, Finished, TypesKept, LateNoted
  <2>3. QED BY <2>1, <2>2 DEF InsertRow
<1>4. DestType' /\ TubeType' /\ Made' = Made /\ sender' \in Nat
  BY <1>1, <1>2, TypesKept
<1>5. YoutubeTypeOK'
  BY <1>1, <1>2, <1>3, <1>4 DEF YoutubeTypeOK
<1>6. RowIsWhole' /\ RequestIsSound'
  BY <1>1, <1>2, <1>3, <1>4
     DEF YoutubeInv, RowIsWhole, RequestIsSound, RowIsServed, Connected, SameRow
<1>7. RowIsServed' /\ HalvesMatch'
  BY <1>1, <1>2, <1>3, <1>4
     DEF YoutubeInv, RowIsWhole, RequestIsSound, RowIsServed, HalvesMatch, KeyIsTheStreams,
         Connected, SameRow
<1>8. KeyIsTheStreams' /\ BroadcastIsReady'
  BY <1>1, <1>2, <1>3, <1>4
     DEF YoutubeInv, RowIsWhole, RequestIsSound, RowIsServed, KeyIsTheStreams,
         BroadcastIsReady, Connected, SameRow
<1>9. QED BY <1>5, <1>6, <1>7, <1>8 DEF YoutubeInv

\* Its items and its metadata.
LEMMA FillRowStep ==
    ASSUME YoutubeInv, FillRow
    PROVE  YoutubeInv'
<1>1. /\ YoutubeTypeOK /\ RowType /\ DestType /\ RequestType /\ SeenType /\ TubeType
  BY DEF YoutubeInv, YoutubeTypeOK
<1>2. /\ req.pc = "fill" /\ "insert" \in Requests /\ UNCHANGED <<yrow, dest, tube, sender>>
  BY DEF FillRow, At, Requests
<1>3. \/ Goto("insert") /\ UNCHANGED seen
      \/ Finish /\ seen' = [seen EXCEPT !.late = TRUE]
  BY DEF FillRow
<1>4. /\ RequestType' /\ SeenType'
      /\ \/ seen' = seen /\ req'.pc = "insert" /\ req'.then = req.then
         \/ /\ req'.pc = "idle" /\ req'.then = "idle"
            /\ seen'.late /\ seen'.since = seen.since
            /\ seen'.torn = seen.torn /\ seen'.moved = seen.moved
  BY <1>1, <1>2, <1>3, WentTo, Finished, TypesKept, LateNoted
<1>5. RowType' /\ SameRow /\ DestType' /\ TubeType' /\ Made' = Made /\ sender' \in Nat
  BY <1>1, <1>2, TypesKept
<1>6. YoutubeTypeOK'
  BY <1>1, <1>2, <1>3, <1>4, <1>5 DEF YoutubeTypeOK
<1>7. RowIsWhole' /\ RequestIsSound'
  BY <1>1, <1>2, <1>3, <1>4, <1>5
     DEF YoutubeInv, RowIsWhole, RequestIsSound, RowIsServed, Connected, SameRow
<1>8. RowIsServed' /\ HalvesMatch'
  BY <1>1, <1>2, <1>3, <1>4, <1>5
     DEF YoutubeInv, RowIsWhole, RequestIsSound, RowIsServed, HalvesMatch, KeyIsTheStreams,
         Connected, SameRow
<1>9. KeyIsTheStreams' /\ BroadcastIsReady'
  BY <1>1, <1>2, <1>3, <1>4, <1>5
     DEF YoutubeInv, RowIsWhole, RequestIsSound, RowIsServed, KeyIsTheStreams,
         BroadcastIsReady, Connected, SameRow
<1>10. QED BY <1>6, <1>7, <1>8, <1>9 DEF YoutubeInv

\* A part of provision fails.
LEMMA FailStep ==
    ASSUME YoutubeInv, req.pc \in {"insert", "stream", "bind", "dest", "attach"}, Fails0,
           explain \/ UNCHANGED yrow, UNCHANGED <<dest, tube, sender>>,
           SeenType', seen'.since = seen.since, seen'.late = seen.late, seen'.moved = seen.moved,
           seen'.torn \/ (~seen.torn /\ (req.pc = "attach" => req.then = "undo" \/ yrow.away))
    PROVE  YoutubeInv'
<1>1. /\ YoutubeTypeOK /\ RowType /\ DestType /\ RequestType /\ SeenType /\ TubeType
  BY DEF YoutubeInv, YoutubeTypeOK
<1>2. /\ RowType' /\ SameRow /\ RequestType'
      /\ \/ req.then = "undo" /\ req'.pc = "undo" /\ req'.then = "undo"
         \/ req.then # "undo" /\ req'.pc = "idle" /\ req'.then = "idle"
  BY <1>1, Failed
<1>3. DestType' /\ TubeType' /\ Made' = Made /\ sender' \in Nat
  BY <1>1, <1>2, TypesKept
<1>4. YoutubeTypeOK'
  BY <1>1, <1>2, <1>3 DEF YoutubeTypeOK
<1>5. RowIsWhole' /\ RequestIsSound'
  BY <1>1, <1>2, <1>3
     DEF YoutubeInv, RowIsWhole, RequestIsSound, RowIsServed, Connected, SameRow
<1>6. RowIsServed' /\ HalvesMatch'
  BY <1>1, <1>2, <1>3
     DEF YoutubeInv, RowIsWhole, RequestIsSound, RowIsServed, HalvesMatch, KeyIsTheStreams,
         Connected, SameRow
<1>7. KeyIsTheStreams' /\ BroadcastIsReady'
  BY <1>1, <1>2, <1>3
     DEF YoutubeInv, RowIsWhole, RequestIsSound, RowIsServed, KeyIsTheStreams,
         BroadcastIsReady, Connected, SameRow
<1>8. QED BY <1>4, <1>5, <1>6, <1>7 DEF YoutubeInv

\* A start is given up.
LEMMA FinishStep ==
    ASSUME YoutubeInv, req.pc \in {"check", "rebind", "renew", "again"}, Finish, explain,
           UNCHANGED <<dest, tube, sender>>, SeenType', SameLoss
    PROVE  YoutubeInv'
<1>1. /\ YoutubeTypeOK /\ RowType /\ DestType /\ RequestType /\ SeenType /\ TubeType
  BY DEF YoutubeInv, YoutubeTypeOK
<1>2. /\ RowType' /\ SameRow /\ RequestType' /\ req'.pc = "idle" /\ req'.then = "idle"
  BY <1>1, Explained, Finished
<1>3. DestType' /\ TubeType' /\ Made' = Made /\ sender' \in Nat
  BY <1>1, <1>2, TypesKept
<1>4. seen'.late = seen.late /\ seen'.torn = seen.torn /\ seen'.moved = seen.moved
  BY DEF SameLoss
<1>5. YoutubeTypeOK'
  BY <1>1, <1>2, <1>3, <1>4 DEF YoutubeTypeOK
<1>6. RowIsWhole' /\ RequestIsSound'
  BY <1>1, <1>2, <1>3, <1>4
     DEF YoutubeInv, RowIsWhole, RequestIsSound, RowIsServed, Connected, SameRow
<1>7. RowIsServed' /\ HalvesMatch'
  BY <1>1, <1>2, <1>3, <1>4
     DEF YoutubeInv, RowIsWhole, RequestIsSound, RowIsServed, HalvesMatch, KeyIsTheStreams,
         Connected, SameRow
<1>8. KeyIsTheStreams' /\ BroadcastIsReady'
  BY <1>1, <1>2, <1>3, <1>4
     DEF YoutubeInv, RowIsWhole, RequestIsSound, RowIsServed, KeyIsTheStreams,
         BroadcastIsReady, Connected, SameRow
<1>9. QED BY <1>5, <1>6, <1>7, <1>8 DEF YoutubeInv

\* A broadcast is made, in a create, or in a renewal.
LEMMA MadeStep ==
    ASSUME YoutubeInv, NEW next \in {"stream", "again"},
           \/ req.pc = "insert" /\ next = "stream"
           \/ req.pc = "renew" /\ next = "again",
           create_broadcast_on_youtube(next), UNCHANGED <<yrow, dest, sender, seen>>
    PROVE  YoutubeInv'
<1>1. /\ YoutubeTypeOK /\ RowType /\ DestType /\ RequestType /\ SeenType /\ TubeType
  BY DEF YoutubeInv, YoutubeTypeOK
<1>2. next \in Requests
  BY DEF Requests
<1>3. PICK y \in Nat \ {0} :
             /\ y \notin Made /\ Made' = Made \cup {y} /\ TubeType'
             /\ tube'.life[y] = "ready"
             /\ \A b \in Made : tube'.life[b] = tube.life[b] /\ tube'.bound[b] = tube.bound[b]
             /\ RequestType' /\ req'.pc = next /\ req'.then = req.then
             /\ req'.yb = y /\ req'.ys = req.ys
  BY <1>1, <1>2, BroadcastMade
<1>4. RowType' /\ SameRow /\ DestType' /\ SeenType' /\ sender' \in Nat
  BY <1>1, <1>2, TypesKept
<1>5. YoutubeTypeOK'
  BY <1>1, <1>2, <1>3, <1>4 DEF YoutubeTypeOK
<1>6. RowIsWhole' /\ RequestIsSound'
  BY <1>1, <1>2, <1>3, <1>4
     DEF YoutubeInv, RowIsWhole, RequestIsSound, RowIsServed, Connected, SameRow
<1>7. RowIsServed' /\ HalvesMatch'
  BY <1>1, <1>2, <1>3, <1>4
     DEF YoutubeInv, RowIsWhole, RequestIsSound, RowIsServed, HalvesMatch, KeyIsTheStreams,
         Connected, SameRow
<1>8. KeyIsTheStreams' /\ BroadcastIsReady'
  BY <1>1, <1>2, <1>3, <1>4
     DEF YoutubeInv, RowIsWhole, RequestIsSound, RowIsServed, KeyIsTheStreams,
         BroadcastIsReady, Connected, SameRow
<1>9. QED BY <1>5, <1>6, <1>7, <1>8 DEF YoutubeInv

\* A stream is made.
LEMMA StreamStep ==
    ASSUME YoutubeInv, req.pc = "stream", UNCHANGED <<yrow, dest, sender, seen>>,
           tube' = [tube EXCEPT !.streams = @ + 1],
           req' = [req EXCEPT !.pc = "bind", !.ys = tube.streams + 1]
    PROVE  YoutubeInv'
<1>1. /\ YoutubeTypeOK /\ RowType /\ DestType /\ RequestType /\ SeenType /\ TubeType
  BY DEF YoutubeInv, YoutubeTypeOK
<1>2. "bind" \in Requests /\ tube.streams + 1 \in Nat \ {0}
  BY <1>1 DEF Requests, TubeType
<1>3. /\ RequestType' /\ req'.pc = "bind" /\ req'.then = req.then
      /\ req'.yb = req.yb /\ req'.ys # 0
  BY <1>1, <1>2 DEF RequestType
<1>4. /\ tube'.life = tube.life /\ tube'.bound = tube.bound /\ tube'.monitor = tube.monitor
      /\ tube'.streams \in Nat
      /\ tube' = [life |-> tube'.life, bound |-> tube'.bound, monitor |-> tube'.monitor,
                  streams |-> tube'.streams]
  BY <1>1, <1>2 DEF TubeType
<1>5. TubeType' /\ Made' = Made
  BY <1>1, <1>4 DEF TubeType, Made
<1>6. RowType' /\ SameRow /\ DestType' /\ SeenType' /\ sender' \in Nat
  BY <1>1, <1>2, TypesKept
<1>7. YoutubeTypeOK'
  BY <1>1, <1>2, <1>3, <1>4, <1>5, <1>6 DEF YoutubeTypeOK
<1>8. RowIsWhole' /\ RequestIsSound'
  BY <1>1, <1>2, <1>3, <1>4, <1>5, <1>6
     DEF YoutubeInv, RowIsWhole, RequestIsSound, RowIsServed, Connected, SameRow
<1>9. RowIsServed' /\ HalvesMatch'
  BY <1>1, <1>2, <1>3, <1>4, <1>5, <1>6
     DEF YoutubeInv, RowIsWhole, RequestIsSound, RowIsServed, HalvesMatch, KeyIsTheStreams,
         Connected, SameRow
<1>10. KeyIsTheStreams' /\ BroadcastIsReady'
  BY <1>1, <1>2, <1>3, <1>4, <1>5, <1>6
     DEF YoutubeInv, RowIsWhole, RequestIsSound, RowIsServed, KeyIsTheStreams,
         BroadcastIsReady, Connected, SameRow
<1>11. QED BY <1>7, <1>8, <1>9, <1>10 DEF YoutubeInv

\* A new broadcast is bound to its stream.
LEMMA BindStep ==
    ASSUME YoutubeInv, req.pc = "bind", UNCHANGED <<yrow, dest, sender, seen>>,
           tube' = [tube EXCEPT !.bound[req.yb] = req.ys], Goto("dest")
    PROVE  YoutubeInv'
<1>1. /\ YoutubeTypeOK /\ RowType /\ DestType /\ RequestType /\ SeenType /\ TubeType
  BY DEF YoutubeInv, YoutubeTypeOK
<1>2. "dest" \in Requests /\ req.yb \in Made /\ req.ys \in Nat
  BY <1>1 DEF Requests, YoutubeInv, RequestIsSound, RequestType
<1>3. /\ RequestType' /\ req'.pc = "dest" /\ req'.then = req.then
      /\ req'.yb = req.yb /\ req'.ys = req.ys
  BY <1>1, <1>2, WentTo
<1>4. /\ TubeType' /\ Made' = Made /\ tube'.life = tube.life
           /\ \A b \in Made : tube'.bound[b] = IF b = req.yb THEN req.ys ELSE tube.bound[b]
  BY <1>1, <1>2, Bound
<1>5. RowType' /\ SameRow /\ DestType' /\ SeenType' /\ sender' \in Nat
  BY <1>1, <1>2, TypesKept
<1>6. YoutubeTypeOK'
  BY <1>1, <1>2, <1>3, <1>4, <1>5 DEF YoutubeTypeOK
<1>7. RowIsWhole' /\ RequestIsSound'
  BY <1>1, <1>2, <1>3, <1>4, <1>5
     DEF YoutubeInv, RowIsWhole, RequestIsSound, RowIsServed, Connected, SameRow
<1>8. RowIsServed' /\ HalvesMatch'
  BY <1>1, <1>2, <1>3, <1>4, <1>5
     DEF YoutubeInv, RowIsWhole, RequestIsSound, RowIsServed, HalvesMatch, KeyIsTheStreams,
         Connected, SameRow
<1>9. KeyIsTheStreams' /\ BroadcastIsReady'
  BY <1>1, <1>2, <1>3, <1>4, <1>5
     DEF YoutubeInv, RowIsWhole, RequestIsSound, RowIsServed, KeyIsTheStreams,
         BroadcastIsReady, Connected, SameRow
<1>10. QED BY <1>6, <1>7, <1>8, <1>9 DEF YoutubeInv

\* The key of the new stream is sealed, for the destination the row points at
\* or for a new one.
LEMMA SealStep ==
    ASSUME YoutubeInv, req.pc = "dest", Goto("attach"),
           dest' = IF yrow.away THEN dest ELSE [there |-> TRUE, key |-> req.ys],
           UNCHANGED <<yrow, tube, sender, seen>>
    PROVE  YoutubeInv'
<1>1. /\ YoutubeTypeOK /\ RowType /\ DestType /\ RequestType /\ SeenType /\ TubeType
  BY DEF YoutubeInv, YoutubeTypeOK
<1>2. "attach" \in Requests /\ req.ys \in Nat
  BY <1>1 DEF Requests, RequestType
<1>3. /\ RequestType' /\ req'.pc = "attach" /\ req'.then = req.then
      /\ req'.yb = req.yb /\ req'.ys = req.ys
  BY <1>1, <1>2, WentTo
<1>4. /\ DestType' /\ (~yrow.away => dest'.there /\ dest'.key = req.ys)
      /\ yrow.away => dest' = dest
  BY <1>1, <1>2 DEF DestType
<1>5. RowType' /\ SameRow /\ SeenType' /\ TubeType' /\ Made' = Made /\ sender' \in Nat
  BY <1>1, <1>2, TypesKept
<1>6. YoutubeTypeOK'
  BY <1>1, <1>2, <1>3, <1>4, <1>5 DEF YoutubeTypeOK
<1>7. RowIsWhole' /\ RequestIsSound'
  BY <1>1, <1>2, <1>3, <1>4, <1>5
     DEF YoutubeInv, RowIsWhole, RequestIsSound, RowIsServed, Connected, SameRow
<1>8. RowIsServed' /\ HalvesMatch'
  BY <1>1, <1>2, <1>3, <1>4, <1>5
     DEF YoutubeInv, RowIsWhole, RequestIsSound, RowIsServed, HalvesMatch, KeyIsTheStreams,
         Connected, SameRow
<1>9. KeyIsTheStreams' /\ BroadcastIsReady'
  BY <1>1, <1>2, <1>3, <1>4, <1>5
     DEF YoutubeInv, RowIsWhole, RequestIsSound, RowIsServed, KeyIsTheStreams,
         BroadcastIsReady, Connected, SameRow
<1>10. QED BY <1>6, <1>7, <1>8, <1>9 DEF YoutubeInv

\* The row learns of its other half, and may be pointed at its destination.
LEMMA AttachStep ==
    ASSUME YoutubeInv, req.pc = "attach",
           \/ /\ yrow' = [Attached EXCEPT !.away = FALSE]
              /\ req' = [Idle0 EXCEPT !.pc = IF req.then = "undo" THEN "idle" ELSE "spawn"]
              /\ seen' = [seen EXCEPT !.torn = FALSE, !.moved = FALSE]
           \/ yrow' = Attached /\ Fails0 /\ seen' = [seen EXCEPT !.torn = FALSE],
           dest' = [there |-> TRUE, key |-> req.ys], UNCHANGED <<tube, sender>>
    PROVE  YoutubeInv'
<1>1. /\ YoutubeTypeOK /\ RowType /\ DestType /\ RequestType /\ SeenType /\ TubeType
  BY DEF YoutubeInv, YoutubeTypeOK
<1>2. /\ "waiting" \in Statuses /\ req.ys \in Nat /\ req.yb \in Nat
      /\ "idle" \in Requests /\ "spawn" \in Requests /\ "undo" \in Requests
      /\ seen.moved \in BOOLEAN
  BY <1>1 DEF Requests, RequestType, Statuses, SeenType
<1>3. /\ RowType' /\ yrow'.there = yrow.there /\ yrow'.yb = req.yb /\ yrow'.ys = req.ys
      /\ RequestType' /\ SeenType' /\ ~seen'.torn
      /\ seen'.since = seen.since /\ seen'.late = seen.late
      /\ \/ /\ ~yrow'.away /\ req'.then = "idle"
            /\ req'.pc = IF req.then = "undo" THEN "idle" ELSE "spawn"
         \/ /\ yrow'.away = yrow.away /\ seen'.moved = seen.moved
            /\ \/ req.then = "undo" /\ req'.pc = "undo" /\ req'.then = "undo"
               \/ req.then # "undo" /\ req'.pc = "idle" /\ req'.then = "idle"
  <2>1. CASE /\ yrow' = [Attached EXCEPT !.away = FALSE]
             /\ req' = [Idle0 EXCEPT !.pc = IF req.then = "undo" THEN "idle" ELSE "spawn"]
             /\ seen' = [seen EXCEPT !.torn = FALSE, !.moved = FALSE]
    <3>1. yrow' = [yrow EXCEPT !.yb = req.yb, !.ys = req.ys, !.status = "waiting", !.away = FALSE]
      BY <1>1, <2>1 DEF Attached, RowType
    <3>2. /\ RowType' /\ yrow'.there = yrow.there /\ yrow'.yb = req.yb /\ yrow'.ys = req.ys
          /\ ~yrow'.away
      BY <1>1, <1>2, <3>1 DEF RowType
    <3>3. CASE req.then = "undo"
      <4>1. RequestType' /\ req'.pc = "idle" /\ req'.then = "idle"
        BY <1>2, <2>1, <3>3, Holding
      <4>2. QED BY <1>1, <2>1, <3>2, <3>3, <4>1, KeyNoted
    <3>4. CASE req.then # "undo"
      <4>1. RequestType' /\ req'.pc = "spawn" /\ req'.then = "idle"
        BY <1>2, <2>1, <3>4, Holding
      <4>2. QED BY <1>1, <2>1, <3>2, <3>4, <4>1, KeyNoted
    <3>5. QED BY <3>3, <3>4
  <2>2. CASE yrow' = Attached /\ Fails0 /\ seen' = [seen EXCEPT !.torn = FALSE]
    <3>1. /\ RowType' /\ yrow'.there = yrow.there /\ yrow'.yb = req.yb /\ yrow'.ys = req.ys
          /\ yrow'.away = yrow.away
      BY <1>1, <1>2, <2>2 DEF Attached, RowType
    <3>2. seen' = [seen EXCEPT !.torn = FALSE, !.moved = seen.moved]
      BY <1>1, <2>2 DEF SeenType
    <3>3. SeenType' /\ ~seen'.torn /\ seen'.moved = seen.moved
          /\ seen'.since = seen.since /\ seen'.late = seen.late
      BY <1>1, <1>2, <3>2, KeyNoted
    <3>4. CASE req.then = "undo"
      BY <1>1, <1>2, <2>2, <3>1, <3>3, <3>4, WentTo DEF Fails0
    <3>5. CASE req.then # "undo"
      BY <2>2, <3>1, <3>3, <3>5, Finished DEF Fails0
    <3>6. QED BY <3>4, <3>5
  <2>3. QED BY <2>1, <2>2
<1>4. DestType' /\ dest'.there /\ dest'.key = req.ys
  BY <1>2 DEF DestType
<1>5. req.yb \in Made /\ req.yb # 0 /\ req.ys # 0
  BY <1>1 DEF YoutubeInv, RequestIsSound, TubeType
<1>6. TubeType' /\ Made' = Made /\ sender' \in Nat
  BY <1>1, TypesKept
<1>7. YoutubeTypeOK'
  BY <1>1, <1>3, <1>4, <1>6 DEF YoutubeTypeOK
<1>8. RowIsWhole' /\ RequestIsSound'
  BY <1>1, <1>2, <1>3, <1>4, <1>5, <1>6
     DEF YoutubeInv, RowIsWhole, RequestIsSound, RowIsServed, Connected, SameRow
<1>9. RowIsServed' /\ HalvesMatch'
  BY <1>1, <1>2, <1>3, <1>4, <1>5, <1>6
     DEF YoutubeInv, RowIsWhole, RequestIsSound, RowIsServed, HalvesMatch, KeyIsTheStreams,
         Connected, SameRow
<1>10. KeyIsTheStreams' /\ BroadcastIsReady'
  BY <1>1, <1>2, <1>3, <1>4, <1>5, <1>6
     DEF YoutubeInv, RowIsWhole, RequestIsSound, RowIsServed, KeyIsTheStreams,
         BroadcastIsReady, Connected, SameRow
<1>11. QED BY <1>7, <1>8, <1>9, <1>10 DEF YoutubeInv

\* What was half made is undone, or not.
LEMMA UndoStep ==
    ASSUME YoutubeInv, UndoCreate
    PROVE  YoutubeInv'
<1>1. /\ YoutubeTypeOK /\ RowType /\ DestType /\ RequestType /\ SeenType /\ TubeType
  BY DEF YoutubeInv, YoutubeTypeOK
<1>2. /\ req.pc = "undo" /\ "none" \in Statuses /\ Finish /\ UNCHANGED <<tube, sender>>
  BY DEF UndoCreate, At, Statuses
<1>3. RequestType' /\ req'.pc = "idle" /\ req'.then = "idle"
  BY <1>2, Finished
<1>4. /\ RowType'
      /\ \/ ~yrow'.there /\ ~yrow'.away /\ yrow'.yb = 0 /\ yrow'.ys = 0
         \/ SameRow /\ dest' = dest
  <2>1. (yrow' = yrow /\ dest' = dest) \/ yrow' = NoRow
    BY DEF UndoCreate
  <2>2. CASE yrow' = NoRow
    BY <1>2, <2>2 DEF RowType, NoRow
  <2>3. QED BY <1>1, <2>1, <2>2, TypesKept
<1>5. /\ DestType' /\ SeenType' /\ seen'.since = seen.since
      /\ seen'.torn = seen.torn /\ seen'.moved = seen.moved
      /\ seen'.late \/ (~dest'.there /\ ~yrow'.there)
  <2>1. CASE yrow' = NoRow /\ dest' = NoDest /\ UNCHANGED seen
    BY <1>1, <2>1 DEF DestType, SeenType, NoDest, NoRow
  <2>2. CASE seen' = [seen EXCEPT !.late = TRUE] /\ UNCHANGED dest
    BY <1>1, <2>2, LateNoted, TypesKept
  <2>3. QED BY <2>1, <2>2 DEF UndoCreate
<1>6. TubeType' /\ Made' = Made /\ sender' \in Nat
  BY <1>1, <1>2, TypesKept
<1>7. YoutubeTypeOK'
  BY <1>1, <1>2, <1>3, <1>4, <1>5, <1>6 DEF YoutubeTypeOK
<1>8. RowIsWhole' /\ RequestIsSound'
  BY <1>1, <1>2, <1>3, <1>4, <1>5, <1>6
     DEF YoutubeInv, RowIsWhole, RequestIsSound, RowIsServed, Connected, SameRow
<1>9. RowIsServed' /\ HalvesMatch'
  BY <1>1, <1>2, <1>3, <1>4, <1>5, <1>6
     DEF YoutubeInv, RowIsWhole, RequestIsSound, RowIsServed, HalvesMatch, KeyIsTheStreams,
         Connected, SameRow
<1>10. KeyIsTheStreams' /\ BroadcastIsReady'
  BY <1>1, <1>2, <1>3, <1>4, <1>5, <1>6
     DEF YoutubeInv, RowIsWhole, RequestIsSound, RowIsServed, KeyIsTheStreams,
         BroadcastIsReady, Connected, SameRow
<1>11. QED BY <1>7, <1>8, <1>9, <1>10 DEF YoutubeInv

\* A start, or a restart, asks about the broadcast of the row.
LEMMA AskStep ==
    ASSUME YoutubeInv, Start0 \/ Restart0
    PROVE  YoutubeInv'
<1>1. /\ YoutubeTypeOK /\ RowType /\ DestType /\ RequestType /\ SeenType /\ TubeType
  BY DEF YoutubeInv, YoutubeTypeOK
<1>2. /\ req.pc = "idle" /\ Connected /\ Goto("check") /\ sender' = 0 /\ "check" \in Requests
      /\ UNCHANGED <<yrow, dest, tube, seen>>
  BY DEF Start0, Restart0, SenderEnds, At, Requests
<1>3. /\ RequestType' /\ req'.pc = "check" /\ req'.then = req.then
  BY <1>1, <1>2, WentTo
<1>4. RowType' /\ SameRow /\ DestType' /\ SeenType' /\ TubeType' /\ Made' = Made /\ sender' \in Nat
  BY <1>1, <1>2, TypesKept
<1>5. YoutubeTypeOK'
  BY <1>1, <1>2, <1>3, <1>4 DEF YoutubeTypeOK
<1>6. RowIsWhole' /\ RequestIsSound'
  BY <1>1, <1>2, <1>3, <1>4
     DEF YoutubeInv, RowIsWhole, RequestIsSound, RowIsServed, Connected, SameRow
<1>7. RowIsServed' /\ HalvesMatch'
  BY <1>1, <1>2, <1>3, <1>4
     DEF YoutubeInv, RowIsWhole, RequestIsSound, RowIsServed, HalvesMatch, KeyIsTheStreams,
         Connected, SameRow
<1>8. KeyIsTheStreams' /\ BroadcastIsReady'
  BY <1>1, <1>2, <1>3, <1>4
     DEF YoutubeInv, RowIsWhole, RequestIsSound, RowIsServed, KeyIsTheStreams,
         BroadcastIsReady, Connected, SameRow
<1>9. QED BY <1>5, <1>6, <1>7, <1>8 DEF YoutubeInv

\* The broadcast is as it should be, is to be replaced, or is to be bound again.
LEMMA FoundStep ==
    ASSUME YoutubeInv, NEW next \in {"spawn", "renew", "rebind"}, req.pc = "check", Goto(next),
           set_youtube_status("waiting") \/ set_youtube_status("complete") \/ UNCHANGED yrow,
           UNCHANGED <<dest, tube, sender>>, SeenType', SameLoss,
           next = "spawn" /\ ~seen'.since => tube.bound[yrow.yb] = yrow.ys,
           next \in {"spawn", "rebind"} => tube.life[yrow.yb] # "complete"
    PROVE  YoutubeInv'
<1>1. /\ YoutubeTypeOK /\ RowType /\ DestType /\ RequestType /\ SeenType /\ TubeType
  BY DEF YoutubeInv, YoutubeTypeOK
<1>2. next \in Requests /\ "waiting" \in Statuses /\ "complete" \in Statuses
  BY DEF Requests, Statuses, Lives
<1>3. /\ RequestType' /\ req'.pc = next /\ req'.then = req.then
  BY <1>1, <1>2, WentTo
<1>4. RowType' /\ SameRow
  BY <1>1, <1>2, StatusWritten, TypesKept
<1>5. seen'.late = seen.late /\ seen'.torn = seen.torn /\ seen'.moved = seen.moved
  BY DEF SameLoss
<1>6. DestType' /\ TubeType' /\ Made' = Made /\ sender' \in Nat
  BY <1>1, <1>2, TypesKept
<1>7. YoutubeTypeOK'
  BY <1>1, <1>2, <1>3, <1>4, <1>5, <1>6 DEF YoutubeTypeOK
<1>8. RowIsWhole' /\ RequestIsSound'
  BY <1>1, <1>2, <1>3, <1>4, <1>5, <1>6
     DEF YoutubeInv, RowIsWhole, RequestIsSound, RowIsServed, Connected, SameRow
<1>9. RowIsServed' /\ HalvesMatch'
  BY <1>1, <1>2, <1>3, <1>4, <1>5, <1>6
     DEF YoutubeInv, RowIsWhole, RequestIsSound, RowIsServed, HalvesMatch, KeyIsTheStreams,
         Connected, SameRow
<1>10. KeyIsTheStreams' /\ BroadcastIsReady'
  BY <1>1, <1>2, <1>3, <1>4, <1>5, <1>6
     DEF YoutubeInv, RowIsWhole, RequestIsSound, RowIsServed, KeyIsTheStreams,
         BroadcastIsReady, Connected, SameRow
<1>11. QED BY <1>7, <1>8, <1>9, <1>10 DEF YoutubeInv

\* What the check of a start comes to.
LEMMA CheckedStep ==
    ASSUME YoutubeInv, before_start
    PROVE  YoutubeInv'
<1> DEFINE foreign == /\ tube.life[yrow.yb] # "complete"
                      /\ tube.bound[yrow.yb] \notin {0, yrow.ys}
<1>1. /\ req.pc = "check" /\ seen' = [seen EXCEPT !.since = foreign]
      /\ UNCHANGED <<dest, tube, sender>> /\ SeenType
  BY DEF before_start, At, YoutubeInv, YoutubeTypeOK
<1>2. SeenType' /\ SameLoss /\ (seen'.since <=> foreign)
  <2>1. CASE foreign
    <3>1. seen' = [seen EXCEPT !.since = TRUE]
      BY <1>1, <2>1
    <3>2. QED BY <1>1, <2>1, <3>1 DEF SeenType, SameLoss
  <2>2. CASE ~foreign
    <3>1. seen' = [seen EXCEPT !.since = FALSE]
      BY <1>1, <2>2
    <3>2. QED BY <1>1, <2>2, <3>1 DEF SeenType, SameLoss
  <2>3. QED BY <2>1, <2>2
<1>3. CASE Finish /\ explain
  BY <1>1, <1>2, <1>3, FinishStep
<1>4. CASE Goto("renew") /\ set_youtube_status("complete")
  BY <1>1, <1>2, <1>4, FoundStep
<1>5. CASE tube.life[yrow.yb] # "complete" /\ tube.bound[yrow.yb] = 0 /\ Goto("rebind") /\ UNCHANGED yrow
  BY <1>1, <1>2, <1>5, FoundStep
<1>6. CASE /\ tube.life[yrow.yb] # "complete" /\ tube.bound[yrow.yb] # 0
           /\ Goto("spawn") /\ set_youtube_status("waiting")
  BY <1>1, <1>2, <1>6, FoundStep
<1>7. QED BY <1>3, <1>4, <1>5, <1>6 DEF before_start

\* It is bound again to the stream of the row.
LEMMA ReboundStep ==
    ASSUME YoutubeInv, req.pc = "rebind", Goto("spawn"), set_youtube_status("waiting"),
           tube' = [tube EXCEPT !.bound[yrow.yb] = yrow.ys], UNCHANGED <<dest, sender, seen>>
    PROVE  YoutubeInv'
<1>1. /\ YoutubeTypeOK /\ RowType /\ DestType /\ RequestType /\ SeenType /\ TubeType
  BY DEF YoutubeInv, YoutubeTypeOK
<1>2. /\ "spawn" \in Requests /\ "waiting" \in Statuses /\ yrow.yb \in Made /\ yrow.ys \in Nat
  BY <1>1 DEF Requests, Statuses, YoutubeInv, RowIsWhole, RequestIsSound, RowIsServed, Connected, RowType
<1>3. /\ RequestType' /\ req'.pc = "spawn" /\ req'.then = req.then
  BY <1>1, <1>2, WentTo
<1>4. RowType' /\ SameRow
  BY <1>1, <1>2, StatusWritten
<1>5. /\ TubeType' /\ Made' = Made /\ tube'.life = tube.life
           /\ \A b \in Made : tube'.bound[b] = IF b = yrow.yb THEN yrow.ys ELSE tube.bound[b]
  BY <1>1, <1>2, Bound
<1>6. DestType' /\ SeenType' /\ sender' \in Nat
  BY <1>1, <1>2, TypesKept
<1>7. YoutubeTypeOK'
  BY <1>1, <1>2, <1>3, <1>4, <1>5, <1>6 DEF YoutubeTypeOK
<1>8. RowIsWhole' /\ RequestIsSound'
  BY <1>1, <1>2, <1>3, <1>4, <1>5, <1>6
     DEF YoutubeInv, RowIsWhole, RequestIsSound, RowIsServed, Connected, SameRow
<1>9. RowIsServed' /\ HalvesMatch'
  BY <1>1, <1>2, <1>3, <1>4, <1>5, <1>6
     DEF YoutubeInv, RowIsWhole, RequestIsSound, RowIsServed, HalvesMatch, KeyIsTheStreams,
         Connected, SameRow
<1>10. KeyIsTheStreams' /\ BroadcastIsReady'
  BY <1>1, <1>2, <1>3, <1>4, <1>5, <1>6
     DEF YoutubeInv, RowIsWhole, RequestIsSound, RowIsServed, KeyIsTheStreams,
         BroadcastIsReady, Connected, SameRow
<1>11. QED BY <1>7, <1>8, <1>9, <1>10 DEF YoutubeInv

\* A renewal binds the new broadcast to the old stream, and names it in the row.
LEMMA RenewedStep ==
    ASSUME YoutubeInv, req.pc = "again", tube' = [tube EXCEPT !.bound[req.yb] = yrow.ys],
           yrow' = [yrow EXCEPT !.yb = req.yb, !.status = "waiting"],
           req' = [Idle0 EXCEPT !.pc = "spawn"], UNCHANGED <<dest, sender, seen>>
    PROVE  YoutubeInv'
<1>1. /\ YoutubeTypeOK /\ RowType /\ DestType /\ RequestType /\ SeenType /\ TubeType
  BY DEF YoutubeInv, YoutubeTypeOK
<1>2. /\ "spawn" \in Requests /\ "waiting" \in Statuses /\ req.yb \in Made /\ req.yb # 0
      /\ yrow.ys \in Nat /\ req.yb \in Nat
  BY <1>1 DEF Requests, Statuses, YoutubeInv, RequestIsSound, TubeType, RowType, RequestType
<1>3. /\ RequestType' /\ req'.pc = "spawn" /\ req'.then = "idle"
  BY <1>1, <1>2, Holding
<1>4. /\ RowType' /\ yrow'.there = yrow.there /\ yrow'.yb = req.yb /\ yrow'.ys = yrow.ys
      /\ yrow'.away = yrow.away
  BY <1>1, <1>2 DEF RowType
<1>5. /\ TubeType' /\ Made' = Made /\ tube'.life = tube.life
           /\ \A b \in Made : tube'.bound[b] = IF b = req.yb THEN yrow.ys ELSE tube.bound[b]
  BY <1>1, <1>2, Bound
<1>6. DestType' /\ SeenType' /\ sender' \in Nat
  BY <1>1, <1>2, TypesKept
<1>7. YoutubeTypeOK'
  BY <1>1, <1>2, <1>3, <1>4, <1>5, <1>6 DEF YoutubeTypeOK
<1>8. RowIsWhole' /\ RequestIsSound'
  BY <1>1, <1>2, <1>3, <1>4, <1>5, <1>6
     DEF YoutubeInv, RowIsWhole, RequestIsSound, RowIsServed, Connected, SameRow
<1>9. RowIsServed' /\ HalvesMatch'
  BY <1>1, <1>2, <1>3, <1>4, <1>5, <1>6
     DEF YoutubeInv, RowIsWhole, RequestIsSound, RowIsServed, HalvesMatch, KeyIsTheStreams,
         Connected, SameRow
<1>10. KeyIsTheStreams' /\ BroadcastIsReady'
  BY <1>1, <1>2, <1>3, <1>4, <1>5, <1>6
     DEF YoutubeInv, RowIsWhole, RequestIsSound, RowIsServed, KeyIsTheStreams,
         BroadcastIsReady, Connected, SameRow
<1>11. QED BY <1>7, <1>8, <1>9, <1>10 DEF YoutubeInv

\* YouTube binds a broadcast, and the row cannot be written.
LEMMA UnwrittenStep ==
    ASSUME YoutubeInv, req.pc \in {"rebind", "again"}, NEW y \in Made, Finish,
           tube' = [tube EXCEPT !.bound[y] = yrow.ys], UNCHANGED <<yrow, dest, sender, seen>>
    PROVE  YoutubeInv'
<1>1. /\ YoutubeTypeOK /\ RowType /\ DestType /\ RequestType /\ SeenType /\ TubeType
  BY DEF YoutubeInv, YoutubeTypeOK
<1>2. RequestType' /\ req'.pc = "idle" /\ req'.then = "idle"
  BY Finished
<1>3. yrow.ys \in Nat
  BY <1>1 DEF RowType
<1>4. /\ TubeType' /\ Made' = Made
  BY <1>1, <1>3, Bound
<1>5. RowType' /\ SameRow /\ DestType' /\ SeenType' /\ sender' \in Nat
  BY <1>1, TypesKept
<1>6. YoutubeTypeOK'
  BY <1>1, <1>2, <1>4, <1>5 DEF YoutubeTypeOK
<1>7. RowIsWhole' /\ RequestIsSound'
  BY <1>1, <1>2, <1>3, <1>4, <1>5
     DEF YoutubeInv, RowIsWhole, RequestIsSound, RowIsServed, Connected, SameRow
<1>8. RowIsServed' /\ HalvesMatch'
  BY <1>1, <1>2, <1>3, <1>4, <1>5
     DEF YoutubeInv, RowIsWhole, RequestIsSound, RowIsServed, HalvesMatch, KeyIsTheStreams,
         Connected, SameRow
<1>9. KeyIsTheStreams' /\ BroadcastIsReady'
  BY <1>1, <1>2, <1>3, <1>4, <1>5
     DEF YoutubeInv, RowIsWhole, RequestIsSound, RowIsServed, KeyIsTheStreams,
         BroadcastIsReady, Connected, SameRow
<1>10. QED BY <1>6, <1>7, <1>8, <1>9 DEF YoutubeInv

\* YouTube does not bind it: everything is made anew.
LEMMA AnewStep ==
    ASSUME YoutubeInv, req.pc = "again", req' = [Idle0 EXCEPT !.pc = "insert", !.then = "spawn"],
           UNCHANGED <<yrow, dest, tube, sender, seen>>
    PROVE  YoutubeInv'
<1>1. /\ YoutubeTypeOK /\ RowType /\ DestType /\ RequestType /\ SeenType /\ TubeType
  BY DEF YoutubeInv, YoutubeTypeOK
<1>2. "insert" \in Requests
  BY DEF Requests
<1>3. /\ RequestType' /\ req'.pc = "insert" /\ req'.then = "spawn"
  BY <1>1, <1>2 DEF RequestType, Idle0
<1>4. RowType' /\ SameRow /\ DestType' /\ SeenType' /\ TubeType' /\ Made' = Made /\ sender' \in Nat
  BY <1>1, <1>2, TypesKept
<1>5. YoutubeTypeOK'
  BY <1>1, <1>2, <1>3, <1>4 DEF YoutubeTypeOK
<1>6. RowIsWhole' /\ RequestIsSound'
  BY <1>1, <1>2, <1>3, <1>4
     DEF YoutubeInv, RowIsWhole, RequestIsSound, RowIsServed, Connected, SameRow
<1>7. RowIsServed' /\ HalvesMatch'
  BY <1>1, <1>2, <1>3, <1>4
     DEF YoutubeInv, RowIsWhole, RequestIsSound, RowIsServed, HalvesMatch, KeyIsTheStreams,
         Connected, SameRow
<1>8. KeyIsTheStreams' /\ BroadcastIsReady'
  BY <1>1, <1>2, <1>3, <1>4
     DEF YoutubeInv, RowIsWhole, RequestIsSound, RowIsServed, KeyIsTheStreams,
         BroadcastIsReady, Connected, SameRow
<1>9. QED BY <1>5, <1>6, <1>7, <1>8 DEF YoutubeInv

\* The worker starts, with the key of the destination that the row points at.
LEMMA SpawnStep ==
    ASSUME YoutubeInv, spawn
    PROVE  YoutubeInv'
<1>1. /\ YoutubeTypeOK /\ RowType /\ DestType /\ RequestType /\ SeenType /\ TubeType
  BY DEF YoutubeInv, YoutubeTypeOK
<1>2. /\ req.pc = "spawn" /\ sender' \in {0, IF yrow.away THEN Elsewhere ELSE dest.key} /\ Finish
      /\ UNCHANGED <<yrow, dest, tube, seen>> /\ dest.key \in Nat /\ Elsewhere \in Nat
  BY <1>1, YoutubeAssumption DEF spawn, At, DestType, Elsewhere
<1>3. /\ RequestType' /\ req'.pc = "idle" /\ req'.then = "idle"
  BY <1>2, Finished
<1>4. RowType' /\ SameRow /\ DestType' /\ SeenType' /\ TubeType' /\ Made' = Made /\ sender' \in Nat
  BY <1>1, <1>2, TypesKept
<1>5. YoutubeTypeOK'
  BY <1>1, <1>2, <1>3, <1>4 DEF YoutubeTypeOK
<1>6. RowIsWhole' /\ RequestIsSound'
  BY <1>1, <1>2, <1>3, <1>4
     DEF YoutubeInv, RowIsWhole, RequestIsSound, RowIsServed, Connected, SameRow
<1>7. RowIsServed' /\ HalvesMatch'
  BY <1>1, <1>2, <1>3, <1>4
     DEF YoutubeInv, RowIsWhole, RequestIsSound, RowIsServed, HalvesMatch, KeyIsTheStreams,
         Connected, SameRow
<1>8. KeyIsTheStreams' /\ BroadcastIsReady'
  BY <1>1, <1>2, <1>3, <1>4
     DEF YoutubeInv, RowIsWhole, RequestIsSound, RowIsServed, KeyIsTheStreams,
         BroadcastIsReady, Connected, SameRow
<1>9. QED BY <1>5, <1>6, <1>7, <1>8 DEF YoutubeInv

\* A stop joins the worker first.
LEMMA StopStep ==
    ASSUME YoutubeInv, NEW then \in {"idle", "delete"}, Stop0(then)
    PROVE  YoutubeInv'
<1>1. /\ YoutubeTypeOK /\ RowType /\ DestType /\ RequestType /\ SeenType /\ TubeType
  BY DEF YoutubeInv, YoutubeTypeOK
<1>2. /\ req.pc = "idle" /\ Connected /\ sender' = 0 /\ "end" \in Requests
      /\ req' = [Idle0 EXCEPT !.pc = "end", !.then = then]
      /\ UNCHANGED <<yrow, dest, tube, seen>>
  BY DEF Stop0, SenderEnds, At, Requests
<1>3. /\ RequestType' /\ req'.pc = "end" /\ req'.then = then
  BY <1>1, <1>2 DEF RequestType, Idle0
<1>4. RowType' /\ SameRow /\ DestType' /\ SeenType' /\ TubeType' /\ Made' = Made /\ sender' \in Nat
  BY <1>1, <1>2, TypesKept
<1>5. YoutubeTypeOK'
  BY <1>1, <1>2, <1>3, <1>4 DEF YoutubeTypeOK
<1>6. RowIsWhole' /\ RequestIsSound'
  BY <1>1, <1>2, <1>3, <1>4
     DEF YoutubeInv, RowIsWhole, RequestIsSound, RowIsServed, Connected, SameRow
<1>7. RowIsServed' /\ HalvesMatch'
  BY <1>1, <1>2, <1>3, <1>4
     DEF YoutubeInv, RowIsWhole, RequestIsSound, RowIsServed, HalvesMatch, KeyIsTheStreams,
         Connected, SameRow
<1>8. KeyIsTheStreams' /\ BroadcastIsReady'
  BY <1>1, <1>2, <1>3, <1>4
     DEF YoutubeInv, RowIsWhole, RequestIsSound, RowIsServed, KeyIsTheStreams,
         BroadcastIsReady, Connected, SameRow
<1>9. QED BY <1>5, <1>6, <1>7, <1>8 DEF YoutubeInv

\* YouTube is asked whether it is live.
LEMMA TransitionStep ==
    ASSUME YoutubeInv, req.pc = "end", Goto("transition"), UNCHANGED <<yrow, dest, tube, sender, seen>>
    PROVE  YoutubeInv'
<1>1. /\ YoutubeTypeOK /\ RowType /\ DestType /\ RequestType /\ SeenType /\ TubeType
  BY DEF YoutubeInv, YoutubeTypeOK
<1>2. "transition" \in Requests
  BY DEF Requests
<1>3. /\ RequestType' /\ req'.pc = "transition" /\ req'.then = req.then
  BY <1>1, <1>2, WentTo
<1>4. RowType' /\ SameRow /\ DestType' /\ SeenType' /\ TubeType' /\ Made' = Made /\ sender' \in Nat
  BY <1>1, <1>2, TypesKept
<1>5. YoutubeTypeOK'
  BY <1>1, <1>2, <1>3, <1>4 DEF YoutubeTypeOK
<1>6. RowIsWhole' /\ RequestIsSound'
  BY <1>1, <1>2, <1>3, <1>4
     DEF YoutubeInv, RowIsWhole, RequestIsSound, RowIsServed, Connected, SameRow
<1>7. RowIsServed' /\ HalvesMatch'
  BY <1>1, <1>2, <1>3, <1>4
     DEF YoutubeInv, RowIsWhole, RequestIsSound, RowIsServed, HalvesMatch, KeyIsTheStreams,
         Connected, SameRow
<1>8. KeyIsTheStreams' /\ BroadcastIsReady'
  BY <1>1, <1>2, <1>3, <1>4
     DEF YoutubeInv, RowIsWhole, RequestIsSound, RowIsServed, KeyIsTheStreams,
         BroadcastIsReady, Connected, SameRow
<1>9. QED BY <1>5, <1>6, <1>7, <1>8 DEF YoutubeInv

\* The stop is over on YouTube's side, whatever it answered.
LEMMA EndedStep ==
    ASSUME YoutubeInv, req.pc \in {"end", "transition"}, Ended,
           tube' \in {tube, [tube EXCEPT !.life[yrow.yb] = "complete"]},
           UNCHANGED <<dest, sender, seen>>
    PROVE  YoutubeInv'
<1>1. /\ YoutubeTypeOK /\ RowType /\ DestType /\ RequestType /\ SeenType /\ TubeType
  BY DEF YoutubeInv, YoutubeTypeOK
<1>2. /\ req.then \in {"idle", "delete"} /\ req.then \in Requests /\ "complete" \in Statuses
      /\ "complete" \in Lives /\ yrow.yb \in Made
  BY <1>1 DEF Requests, Statuses, Lives, YoutubeInv, RowIsWhole, RequestIsSound, RowIsServed, Connected
<1>3. /\ RequestType' /\ req'.pc = req.then /\ req'.then = req.then
  BY <1>1, <1>2, WentTo DEF Ended
<1>4. RowType' /\ SameRow
  BY <1>1, <1>2, StatusWritten DEF Ended
<1>5. TubeType' /\ Made' = Made
  BY <1>1, <1>2, LifeSet, TypesKept
<1>6. DestType' /\ SeenType' /\ sender' \in Nat
  BY <1>1, <1>2, TypesKept
<1>7. YoutubeTypeOK'
  BY <1>1, <1>2, <1>3, <1>4, <1>5, <1>6 DEF YoutubeTypeOK
<1>8. RowIsWhole' /\ RequestIsSound'
  BY <1>1, <1>2, <1>3, <1>4, <1>5, <1>6
     DEF YoutubeInv, RowIsWhole, RequestIsSound, RowIsServed, Connected, SameRow
<1>9. RowIsServed' /\ HalvesMatch'
  BY <1>1, <1>2, <1>3, <1>4, <1>5, <1>6
     DEF YoutubeInv, RowIsWhole, RequestIsSound, RowIsServed, HalvesMatch, KeyIsTheStreams,
         Connected, SameRow
<1>10. KeyIsTheStreams' /\ BroadcastIsReady'
  BY <1>1, <1>2, <1>3, <1>4, <1>5, <1>6
     DEF YoutubeInv, RowIsWhole, RequestIsSound, RowIsServed, KeyIsTheStreams,
         BroadcastIsReady, Connected, SameRow
<1>11. QED BY <1>7, <1>8, <1>9, <1>10 DEF YoutubeInv

\* The row is deleted.
LEMMA DeleteStep ==
    ASSUME YoutubeInv, delete_broadcast
    PROVE  YoutubeInv'
<1>1. /\ YoutubeTypeOK /\ RowType /\ DestType /\ RequestType /\ SeenType /\ TubeType
  BY DEF YoutubeInv, YoutubeTypeOK
<1>2. /\ req.pc = "delete" /\ "none" \in Statuses /\ yrow' = NoRow /\ Finish
      /\ seen' = [seen EXCEPT !.torn = FALSE, !.moved = FALSE]
      /\ UNCHANGED <<dest, tube, sender>>
  BY DEF delete_broadcast, At, Statuses
<1>3. RequestType' /\ req'.pc = "idle" /\ req'.then = "idle"
  BY <1>2, Finished
<1>4. /\ RowType' /\ ~yrow'.there /\ ~yrow'.away /\ yrow'.yb = 0 /\ yrow'.ys = 0
  BY <1>2 DEF RowType, NoRow
<1>5. /\ DestType' /\ TubeType' /\ Made' = Made /\ sender' \in Nat
      /\ SeenType' /\ seen'.since = seen.since /\ seen'.late = seen.late
  BY <1>1, <1>2, TypesKept, KeyNoted
<1>6. YoutubeTypeOK'
  BY <1>1, <1>2, <1>3, <1>4, <1>5 DEF YoutubeTypeOK
<1>7. RowIsWhole' /\ RequestIsSound'
  BY <1>1, <1>2, <1>3, <1>4, <1>5
     DEF YoutubeInv, RowIsWhole, RequestIsSound, RowIsServed, Connected, SameRow
<1>8. RowIsServed' /\ HalvesMatch'
  BY <1>1, <1>2, <1>3, <1>4, <1>5
     DEF YoutubeInv, RowIsWhole, RequestIsSound, RowIsServed, HalvesMatch, KeyIsTheStreams,
         Connected, SameRow
<1>9. KeyIsTheStreams' /\ BroadcastIsReady'
  BY <1>1, <1>2, <1>3, <1>4, <1>5
     DEF YoutubeInv, RowIsWhole, RequestIsSound, RowIsServed, KeyIsTheStreams,
         BroadcastIsReady, Connected, SameRow
<1>10. QED BY <1>6, <1>7, <1>8, <1>9 DEF YoutubeInv

\* A destination that nothing uses is deleted.
LEMMA UnusedStep ==
    ASSUME YoutubeInv, delete_destination
    PROVE  YoutubeInv'
<1>1. /\ YoutubeTypeOK /\ RowType /\ DestType /\ RequestType /\ SeenType /\ TubeType
  BY DEF YoutubeInv, YoutubeTypeOK
<1>2. /\ req.pc = "idle" /\ (yrow.there => yrow.away) /\ dest' = NoDest
      /\ UNCHANGED <<yrow, tube, sender, req, seen>>
  BY DEF delete_destination, At
<1>3. DestType' /\ ~dest'.there
  BY <1>2 DEF DestType, NoDest
<1>4. RowType' /\ SameRow /\ RequestType' /\ SeenType' /\ TubeType' /\ Made' = Made /\ sender' \in Nat
  BY <1>1, <1>2, TypesKept
<1>5. YoutubeTypeOK'
  BY <1>1, <1>2, <1>3, <1>4 DEF YoutubeTypeOK
<1>6. RowIsWhole' /\ RequestIsSound'
  BY <1>1, <1>2, <1>3, <1>4
     DEF YoutubeInv, RowIsWhole, RequestIsSound, RowIsServed, Connected, SameRow
<1>7. RowIsServed' /\ HalvesMatch'
  BY <1>1, <1>2, <1>3, <1>4
     DEF YoutubeInv, RowIsWhole, RequestIsSound, RowIsServed, HalvesMatch, KeyIsTheStreams,
         Connected, SameRow
<1>8. KeyIsTheStreams' /\ BroadcastIsReady'
  BY <1>1, <1>2, <1>3, <1>4
     DEF YoutubeInv, RowIsWhole, RequestIsSound, RowIsServed, KeyIsTheStreams,
         BroadcastIsReady, Connected, SameRow
<1>9. QED BY <1>5, <1>6, <1>7, <1>8 DEF YoutubeInv

\* An edit moves the broadcast to another destination, or back.
LEMMA MoveStep ==
    ASSUME YoutubeInv, update_broadcast_owned
    PROVE  YoutubeInv'
<1>1. /\ YoutubeTypeOK /\ RowType /\ DestType /\ RequestType /\ SeenType /\ TubeType
  BY DEF YoutubeInv, YoutubeTypeOK
<1>2. PICK away \in {yrow.away, TRUE, ~dest.there} :
          /\ sync_metadata([yrow EXCEPT !.away = away])
          /\ seen' = [seen EXCEPT !.moved = @ \/ away]
  BY DEF update_broadcast_owned
<1>3. /\ req.pc = "idle" /\ Connected /\ UNCHANGED <<dest, tube, sender, req>>
      /\ away \in BOOLEAN /\ (away \/ dest.there \/ ~yrow.away)
  BY <1>1, <1>2 DEF update_broadcast_owned, At, RowType, DestType
<1>4. /\ RowType' /\ yrow'.there = yrow.there /\ yrow'.yb = yrow.yb /\ yrow'.ys = yrow.ys
      /\ yrow'.away = away
  <2>1. CASE yrow' = [yrow EXCEPT !.away = away]
    BY <1>1, <1>3, <2>1 DEF RowType
  <2>2. CASE yrow' = [[yrow EXCEPT !.away = away] EXCEPT !.status = "error"]
    BY <1>1, <1>3, <2>2 DEF RowType, Statuses
  <2>3. QED BY <1>2, <2>1, <2>2 DEF sync_metadata
<1>5. /\ SeenType' /\ seen'.since = seen.since /\ seen'.late = seen.late
      /\ seen'.torn = seen.torn /\ (seen'.moved <=> seen.moved \/ away)
  <2>1. PICK m \in BOOLEAN : m = (seen.moved \/ away)
    BY Zenon
  <2>2. seen' = [seen EXCEPT !.torn = seen.torn, !.moved = m]
    BY <1>1, <1>2, <2>1 DEF SeenType
  <2>3. seen.torn \in BOOLEAN
    BY <1>1 DEF SeenType
  <2>4. SeenType' /\ seen'.torn = seen.torn /\ seen'.moved = m
        /\ seen'.since = seen.since /\ seen'.late = seen.late
    BY <1>1, <2>2, <2>3, KeyNoted
  <2>5. QED BY <2>1, <2>4
<1>6. DestType' /\ RequestType' /\ TubeType' /\ Made' = Made /\ sender' \in Nat
  BY <1>1, <1>3, TypesKept
<1>7. YoutubeTypeOK'
  BY <1>1, <1>4, <1>5, <1>6 DEF YoutubeTypeOK
<1>8. RowIsWhole' /\ RequestIsSound'
  BY <1>1, <1>2, <1>3, <1>4, <1>5, <1>6
     DEF YoutubeInv, RowIsWhole, RequestIsSound, RowIsServed, Connected, SameRow
<1>9. RowIsServed' /\ HalvesMatch'
  BY <1>1, <1>2, <1>3, <1>4, <1>5, <1>6
     DEF YoutubeInv, RowIsWhole, RequestIsSound, RowIsServed, HalvesMatch, KeyIsTheStreams,
         Connected, SameRow
<1>10. KeyIsTheStreams' /\ BroadcastIsReady'
  BY <1>1, <1>2, <1>3, <1>4, <1>5, <1>6
     DEF YoutubeInv, RowIsWhole, RequestIsSound, RowIsServed, KeyIsTheStreams,
         BroadcastIsReady, Connected, SameRow
<1>11. QED BY <1>7, <1>8, <1>9, <1>10 DEF YoutubeInv

\* The row's status alone is written, by a poll, or nothing is.
LEMMA StatusStep ==
    ASSUME YoutubeInv, SameRow, RowType', UNCHANGED <<dest, tube, sender, req, seen>>
    PROVE  YoutubeInv'
<1>1. /\ YoutubeTypeOK /\ RowType /\ DestType /\ RequestType /\ SeenType /\ TubeType
  BY DEF YoutubeInv, YoutubeTypeOK
<1>2. DestType' /\ RequestType' /\ SeenType' /\ TubeType' /\ Made' = Made /\ sender' \in Nat
  BY <1>1, TypesKept
<1>3. YoutubeTypeOK'
  BY <1>1, <1>2 DEF YoutubeTypeOK
<1>4. RowIsWhole' /\ RequestIsSound'
  BY <1>1, <1>2
     DEF YoutubeInv, RowIsWhole, RequestIsSound, RowIsServed, Connected, SameRow
<1>5. RowIsServed' /\ HalvesMatch'
  BY <1>1, <1>2
     DEF YoutubeInv, RowIsWhole, RequestIsSound, RowIsServed, HalvesMatch, KeyIsTheStreams,
         Connected, SameRow
<1>6. KeyIsTheStreams' /\ BroadcastIsReady'
  BY <1>1, <1>2
     DEF YoutubeInv, RowIsWhole, RequestIsSound, RowIsServed, KeyIsTheStreams,
         BroadcastIsReady, Connected, SameRow
<1>7. QED BY <1>3, <1>4, <1>5, <1>6 DEF YoutubeInv

\* The server dies.
LEMMA DiesStep ==
    ASSUME YoutubeInv, ServerDies0
    PROVE  YoutubeInv'
<1>1. /\ YoutubeTypeOK /\ RowType /\ DestType /\ RequestType /\ SeenType /\ TubeType
  BY DEF YoutubeInv, YoutubeTypeOK
<1>2. /\ sender' = 0 /\ Finish /\ UNCHANGED <<yrow, dest, tube>>
      /\ seen' = [seen EXCEPT !.late = @ \/ req.then = "undo",
                              !.torn = @ \/ (req.pc = "attach" /\ ~yrow.away)]
  BY DEF ServerDies0, SenderEnds
<1>3. RequestType' /\ req'.pc = "idle" /\ req'.then = "idle"
  BY <1>2, Finished
<1>4. /\ SeenType' /\ seen'.since = seen.since
      /\ seen'.late <=> seen.late \/ req.then = "undo"
      /\ seen'.torn <=> seen.torn \/ (req.pc = "attach" /\ ~yrow.away)
      /\ seen'.moved = seen.moved
  <2> DEFINE late == seen.late \/ req.then = "undo"
             torn == seen.torn \/ (req.pc = "attach" /\ ~yrow.away)
  <2>1. seen' = [seen EXCEPT !.late = late, !.torn = torn]
    BY <1>1, <1>2 DEF SeenType
  <2>2. PICK a \in BOOLEAN, b \in BOOLEAN : a = late /\ b = torn
    BY Zenon
  <2>3. seen' = [seen EXCEPT !.late = a, !.torn = b]
    BY <2>1, <2>2
  <2> HIDE DEF late, torn
  <2>4. /\ SeenType' /\ seen'.since = seen.since /\ seen'.late = a /\ seen'.torn = b
        /\ seen'.moved = seen.moved
    BY <1>1, <2>3 DEF SeenType
  <2>5. QED BY <2>2, <2>4 DEF late, torn
<1>5. RowType' /\ SameRow /\ DestType' /\ TubeType' /\ Made' = Made /\ sender' \in Nat
  BY <1>1, <1>2, TypesKept
<1>6. YoutubeTypeOK'
  BY <1>1, <1>2, <1>3, <1>4, <1>5 DEF YoutubeTypeOK
<1>7. RowIsWhole' /\ RequestIsSound'
  BY <1>1, <1>2, <1>3, <1>4, <1>5
     DEF YoutubeInv, RowIsWhole, RequestIsSound, RowIsServed, Connected, SameRow
<1>8. RowIsServed' /\ HalvesMatch'
  BY <1>1, <1>2, <1>3, <1>4, <1>5
     DEF YoutubeInv, RowIsWhole, RequestIsSound, RowIsServed, HalvesMatch, KeyIsTheStreams,
         Connected, SameRow
<1>9. KeyIsTheStreams' /\ BroadcastIsReady'
  BY <1>1, <1>2, <1>3, <1>4, <1>5
     DEF YoutubeInv, RowIsWhole, RequestIsSound, RowIsServed, KeyIsTheStreams,
         BroadcastIsReady, Connected, SameRow
<1>10. QED BY <1>6, <1>7, <1>8, <1>9 DEF YoutubeInv

\* A broadcast goes on on YouTube, by itself, by the watch or by hand, and
\* ends or is bound to something else by hand or for want of its stream.
LEMMA LivesStep ==
    ASSUME YoutubeInv, NEW y \in Made, NEW l \in Lives, tube' = [tube EXCEPT !.life[y] = l],
           \/ UNCHANGED seen /\ sender # 0 /\ (tube.life[y] # "complete" => l # "complete")
           \/ Meddled,
           RowType', SameRow, UNCHANGED <<dest, sender, req>>
    PROVE  YoutubeInv'
<1>1. /\ YoutubeTypeOK /\ RowType /\ DestType /\ RequestType /\ SeenType /\ TubeType
  BY DEF YoutubeInv, YoutubeTypeOK
<1>2. /\ TubeType' /\ Made' = Made /\ tube'.bound = tube.bound
      /\ \A b \in Made : tube'.life[b] = IF b = y THEN l ELSE tube.life[b]
  BY <1>1, LifeSet
<1>3. /\ SeenType' /\ seen'.late = seen.late /\ seen'.torn = seen.torn
      /\ seen'.moved = seen.moved
      /\ \/ seen'.since
         \/ seen'.since = seen.since /\ sender # 0 /\ (tube.life[y] # "complete" => l # "complete")
  BY <1>1, MeddledNoted, TypesKept DEF SameLoss
<1>4. DestType' /\ RequestType' /\ sender' \in Nat
  BY <1>1, TypesKept
<1>5. YoutubeTypeOK'
  BY <1>1, <1>2, <1>3, <1>4 DEF YoutubeTypeOK
<1>6. RowIsWhole' /\ RequestIsSound'
  BY <1>1, <1>2, <1>3, <1>4
     DEF YoutubeInv, RowIsWhole, RequestIsSound, RowIsServed, Connected, SameRow
<1>7. RowIsServed' /\ HalvesMatch'
  BY <1>1, <1>2, <1>3, <1>4
     DEF YoutubeInv, RowIsWhole, RequestIsSound, RowIsServed, HalvesMatch, KeyIsTheStreams,
         Connected, SameRow
<1>8. KeyIsTheStreams' /\ BroadcastIsReady'
  BY <1>1, <1>2, <1>3, <1>4
     DEF YoutubeInv, RowIsWhole, RequestIsSound, RowIsServed, KeyIsTheStreams,
         BroadcastIsReady, Connected, SameRow
<1>9. QED BY <1>5, <1>6, <1>7, <1>8 DEF YoutubeInv

\* A person binds it to another stream, or to none.
LEMMA StudioBindsStep ==
    ASSUME YoutubeInv, NEW y \in Made, NEW s \in Nat, tube' = [tube EXCEPT !.bound[y] = s], Meddled,
           UNCHANGED <<yrow, dest, sender, req>>
    PROVE  YoutubeInv'
<1>1. /\ YoutubeTypeOK /\ RowType /\ DestType /\ RequestType /\ SeenType /\ TubeType
  BY DEF YoutubeInv, YoutubeTypeOK
<1>2. /\ TubeType' /\ Made' = Made /\ tube'.life = tube.life
  BY <1>1, Bound
<1>3. /\ SeenType' /\ seen'.late = seen.late /\ seen'.torn = seen.torn
      /\ seen'.moved = seen.moved /\ seen'.since
  BY <1>1, MeddledNoted DEF SameLoss
<1>4. RowType' /\ SameRow /\ DestType' /\ RequestType' /\ sender' \in Nat
  BY <1>1, TypesKept
<1>5. YoutubeTypeOK'
  BY <1>1, <1>2, <1>3, <1>4 DEF YoutubeTypeOK
<1>6. RowIsWhole' /\ RequestIsSound'
  BY <1>1, <1>2, <1>3, <1>4
     DEF YoutubeInv, RowIsWhole, RequestIsSound, RowIsServed, Connected, SameRow
<1>7. RowIsServed' /\ HalvesMatch'
  BY <1>1, <1>2, <1>3, <1>4
     DEF YoutubeInv, RowIsWhole, RequestIsSound, RowIsServed, HalvesMatch, KeyIsTheStreams,
         Connected, SameRow
<1>8. KeyIsTheStreams' /\ BroadcastIsReady'
  BY <1>1, <1>2, <1>3, <1>4
     DEF YoutubeInv, RowIsWhole, RequestIsSound, RowIsServed, KeyIsTheStreams,
         BroadcastIsReady, Connected, SameRow
<1>9. QED BY <1>5, <1>6, <1>7, <1>8 DEF YoutubeInv

----------------------------------------------------------------------------
(* The actions with more than one outcome. *)

\* The parts of provision.
LEMMA ProvisionStep ==
    ASSUME YoutubeInv, provision_insert \/ provision_stream \/ provision_bind
    PROVE  YoutubeInv'
<1>1. /\ UNCHANGED seen /\ SeenType' /\ (seen'.torn \/ ~seen.torn)
      /\ req.pc \in {"insert", "stream", "bind"}
  BY TypesKept DEF provision_insert, provision_stream, provision_bind, At, YoutubeInv
<1>2. CASE provision_insert
  BY <1>1, <1>2, MadeStep, FailStep DEF provision_insert, At
<1>3. CASE provision_stream
  BY <1>1, <1>3, StreamStep, FailStep DEF provision_stream, At
<1>4. CASE provision_bind
  BY <1>1, <1>4, BindStep, FailStep DEF provision_bind, At
<1>5. QED BY <1>2, <1>3, <1>4

\* The two writes that end it.
LEMMA WriteStep ==
    ASSUME YoutubeInv, upsert_youtube_destination \/ attach_youtube
    PROVE  YoutubeInv'
<1>1. SeenType /\ RequestIsSound
  BY DEF YoutubeInv, YoutubeTypeOK
<1>2. CASE upsert_youtube_destination
  <2>1. /\ req.pc = "dest" /\ UNCHANGED <<yrow, tube, sender, seen>> /\ SeenType'
        /\ (seen'.torn \/ ~seen.torn)
    BY <1>1, <1>2, TypesKept DEF upsert_youtube_destination, At, YoutubeInv
  <2>2. CASE Fails0 /\ UNCHANGED dest
    BY <2>1, <2>2, FailStep
  <2>3. CASE /\ dest' = IF yrow.away THEN dest ELSE [there |-> TRUE, key |-> req.ys]
             /\ Goto("attach")
    BY <2>1, <2>3, SealStep
  <2>4. QED BY <1>2, <2>2, <2>3 DEF upsert_youtube_destination
<1>3. CASE attach_youtube
  <2>1. req.pc = "attach" /\ UNCHANGED <<tube, sender>> /\ req.then \in {"undo", "spawn"}
    BY <1>1, <1>3 DEF attach_youtube, At, RequestIsSound
  <2>2. CASE /\ Fails0 /\ UNCHANGED <<yrow, dest>>
             /\ seen' = [seen EXCEPT !.torn = @ \/ (req.then = "spawn" /\ ~yrow.away)]
    <3>1. PICK t \in BOOLEAN : t = (seen.torn \/ (req.then = "spawn" /\ ~yrow.away))
      BY Zenon
    <3>2. seen.moved \in BOOLEAN /\ seen' = [seen EXCEPT !.torn = t, !.moved = seen.moved]
      BY <1>1, <2>2, <3>1 DEF SeenType
    <3>3. /\ SeenType' /\ seen'.torn = t /\ seen'.moved = seen.moved
          /\ seen'.since = seen.since /\ seen'.late = seen.late
      BY <1>1, <3>2, KeyNoted
    <3>4. seen'.torn \/ (~seen.torn /\ (req.pc = "attach" => req.then = "undo" \/ yrow.away))
      BY <2>1, <3>1, <3>3
    <3>5. QED BY <2>1, <2>2, <3>3, <3>4, FailStep
  <2>3. CASE \/ /\ yrow' = [Attached EXCEPT !.away = FALSE]
                /\ dest' = [there |-> TRUE, key |-> req.ys]
                /\ req' = [Idle0 EXCEPT !.pc = IF req.then = "undo" THEN "idle" ELSE "spawn"]
                /\ seen' = [seen EXCEPT !.torn = FALSE, !.moved = FALSE]
             \/ /\ yrow' = Attached /\ Fails0
                /\ dest' = [there |-> TRUE, key |-> req.ys]
                /\ seen' = [seen EXCEPT !.torn = FALSE]
    BY <2>1, <2>3, AttachStep
  <2>4. QED BY <1>3, <2>2, <2>3 DEF attach_youtube
<1>4. QED BY <1>2, <1>3

\* A start that binds again, or renews.
LEMMA RenewalStep ==
    ASSUME YoutubeInv, Rebind \/ renew \/ RenewBind
    PROVE  YoutubeInv'
<1>1. UNCHANGED seen /\ SeenType' /\ SameLoss
  BY TypesKept DEF Rebind, renew, RenewBind, YoutubeInv, SameLoss
<1>2. CASE Rebind
  <2>1. req.pc = "rebind" /\ yrow.yb \in Made /\ UNCHANGED <<dest, sender, seen>>
    BY <1>2 DEF Rebind, At, YoutubeInv, RowIsWhole, RequestIsSound, RowIsServed, Connected
  <2>2. QED BY <1>1, <1>2, <2>1, ReboundStep, UnwrittenStep, FinishStep DEF Rebind
<1>3. CASE renew
  BY <1>1, <1>3, MadeStep, FinishStep DEF renew, At
<1>4. CASE RenewBind
  <2>1. req.pc = "again" /\ req.yb \in Made /\ UNCHANGED <<dest, sender, seen>>
    BY <1>4 DEF RenewBind, At, YoutubeInv, RequestIsSound
  <2>2. CASE /\ tube' = [tube EXCEPT !.bound[req.yb] = yrow.ys]
             /\ yrow' = [yrow EXCEPT !.yb = req.yb, !.status = "waiting"]
             /\ req' = [Idle0 EXCEPT !.pc = "spawn"]
    BY <2>1, <2>2, RenewedStep
  <2>3. CASE req' = [Idle0 EXCEPT !.pc = "insert", !.then = "spawn"] /\ UNCHANGED <<tube, yrow>>
    BY <2>1, <2>3, AnewStep
  <2>4. CASE Finish /\ explain /\ UNCHANGED tube
    BY <1>1, <2>1, <2>4, FinishStep
  <2>5. CASE tube' = [tube EXCEPT !.bound[req.yb] = yrow.ys] /\ Finish /\ UNCHANGED yrow
    BY <2>1, <2>5, UnwrittenStep
  <2>6. QED BY <1>4, <2>2, <2>3, <2>4, <2>5 DEF RenewBind
<1>5. QED BY <1>2, <1>3, <1>4

\* A stop on YouTube's side.
LEMMA AfterStopStep ==
    ASSUME YoutubeInv, after_stop \/ complete_on_youtube
    PROVE  YoutubeInv'
<1>1. CASE after_stop
  BY <1>1, TransitionStep, EndedStep DEF after_stop, At
<1>2. CASE complete_on_youtube
  BY <1>2, EndedStep DEF complete_on_youtube, At
<1>3. QED BY <1>1, <1>2

\* What the watch writes to the row.
LEMMA PollStep ==
    ASSUME YoutubeInv, poll_status \/ PollFails
    PROVE  YoutubeInv'
<1>1. RowType /\ TubeType
  BY DEF YoutubeInv, YoutubeTypeOK
<1>2. CASE PollFails
  BY <1>1, <1>2, Explained, StatusStep DEF PollFails
<1>3. CASE poll_status
  <2>1. /\ yrow.yb \in Made /\ sender # 0 /\ tube.life[yrow.yb] \in Lives
        /\ "live" \in Lives /\ "live" \in Statuses
        /\ UNCHANGED <<dest, sender, req, seen>>
    BY <1>1, <1>3 DEF poll_status, maybe_poll, Connected, YoutubeInv, RowIsWhole, TubeType,
                      Lives, Statuses
  <2>2. CASE /\ NeedsTransition(tube.life[yrow.yb], Active, tube.monitor[yrow.yb])
             /\ tube' = [tube EXCEPT !.life[yrow.yb] = "live"] /\ set_youtube_status("live")
    <3>1. RowType' /\ SameRow
      BY <1>1, <2>1, <2>2, StatusWritten
    <3>2. QED BY <2>1, <2>2, <3>1, LivesStep
  <2>3. CASE UNCHANGED tube /\ set_youtube_status(status_for(tube.life[yrow.yb], Active))
    <3>1. status_for(tube.life[yrow.yb], Active) \in Statuses
      BY DEF status_for, Statuses, Lives
    <3>2. RowType' /\ SameRow
      BY <1>1, <2>3, <3>1, StatusWritten
    <3>3. QED BY <2>1, <2>3, <3>2, StatusStep
  <2>4. QED BY <1>3, <2>2, <2>3 DEF poll_status
<1>4. QED BY <1>2, <1>3

\* What happens on YouTube.
LEMMA TubeStep ==
    ASSUME YoutubeInv, NEW y \in 1..MaxMade, IngestArrives(y) \/ AutoStop(y) \/ Studio(y)
    PROVE  YoutubeInv'
<1>1. /\ y \in Made /\ UNCHANGED <<yrow, dest, sender, req>> /\ RowType' /\ SameRow
      /\ {"testing", "live", "complete"} \subseteq Lives /\ TubeType
  BY TypesKept DEF IngestArrives, AutoStop, Studio, Named, Lives, YoutubeInv, YoutubeTypeOK
<1>2. CASE IngestArrives(y)
  <2>1. \/ tube' = [tube EXCEPT !.life[y] = "testing"]
        \/ tube' = [tube EXCEPT !.life[y] = "live"]
    BY <1>2 DEF IngestArrives
  <2>2. sender # 0 /\ UNCHANGED seen
    BY <1>2 DEF IngestArrives
  <2>3. "testing" # "complete" /\ "live" # "complete"
    OBVIOUS
  <2>4. QED BY <1>1, <2>1, <2>2, <2>3, LivesStep
<1>3. CASE AutoStop(y)
  BY <1>1, <1>3, LivesStep DEF AutoStop
<1>4. CASE Studio(y)
  <2>1. /\ Meddled
        /\ \/ tube' = [tube EXCEPT !.life[y] = "live"]
           \/ tube' = [tube EXCEPT !.life[y] = "complete"]
           \/ \E s \in Nat : tube' = [tube EXCEPT !.bound[y] = s]
    BY <1>4 DEF Studio
  <2>2. QED BY <1>1, <2>1, LivesStep, StudioBindsStep
<1>5. QED BY <1>2, <1>3, <1>4

\* At first there is nothing, or a broadcast that an older build made.
LEMMA YoutubeInvInit ==
    ASSUME YoutubeInit PROVE YoutubeInv
<1>1. /\ "idle" \in Requests /\ "none" \in Statuses /\ "waiting" \in Statuses /\ "ready" \in Lives
  BY DEF Requests, Statuses, Lives
<1>2. /\ sender = 0 /\ req = [pc |-> "idle", then |-> "idle", yb |-> 0, ys |-> 0]
      /\ seen = [since |-> FALSE, late |-> FALSE, torn |-> FALSE, moved |-> FALSE,
                 meddling |-> 0]
  BY DEF YoutubeInit, Idle0
<1>3. RequestType /\ SeenType
  BY <1>1, <1>2 DEF RequestType, SeenType
<1>4. CASE /\ yrow = NoRow /\ dest = NoDest
           /\ tube = [life |-> <<>>, bound |-> <<>>, monitor |-> <<>>, streams |-> 0]
  <2>1. RowType /\ DestType
    BY <1>1, <1>4 DEF RowType, DestType, NoRow, NoDest
  <2>2. Made = 1..0
    BY <1>4 DEF Made
  <2>3. TubeType
    BY <1>4, <2>2 DEF TubeType
  <2>4. QED BY <1>2, <1>3, <1>4, <2>1, <2>3
             DEF YoutubeInv, YoutubeTypeOK, NoRow, NoDest, RowIsWhole, RequestIsSound, RowIsServed,
                 HalvesMatch, KeyIsTheStreams, BroadcastIsReady, Connected
<1>5. CASE /\ yrow = [there |-> TRUE, yb |-> 1, ys |-> 1, away |-> FALSE, status |-> "waiting"]
           /\ dest = [there |-> TRUE, key |-> 1]
           /\ tube = [life |-> <<"ready">>, bound |-> <<1>>, monitor |-> <<TRUE>>, streams |-> 1]
  <2>1. RowType /\ DestType
    BY <1>1, <1>5 DEF RowType, DestType
  <2>2. Made = 1..1
    BY <1>5 DEF Made
  <2>3. TubeType
    BY <1>1, <1>5, <2>2 DEF TubeType
  <2>4. QED BY <1>2, <1>3, <1>5, <2>1, <2>2, <2>3
             DEF YoutubeInv, YoutubeTypeOK, RowIsWhole, RequestIsSound, RowIsServed,
                 HalvesMatch, KeyIsTheStreams, BroadcastIsReady, Connected
<1>6. QED BY <1>4, <1>5 DEF YoutubeInit

\* Every step keeps it.
LEMMA YoutubeInvStep ==
    ASSUME YoutubeInv, [YoutubeNext]_youtubeVars
    PROVE  YoutubeInv'
<1>1. CASE UNCHANGED youtubeVars
  <2>1. RowType' /\ SameRow
    BY <1>1, TypesKept DEF youtubeVars, YoutubeInv
  <2>2. QED BY <1>1, <2>1, StatusStep DEF youtubeVars
<1>2. CASE YoutubeNext
  BY <1>2, ReserveStep, InsertRowStep, FillRowStep, ProvisionStep, WriteStep, UndoStep,
     AskStep, CheckedStep, RenewalStep, SpawnStep, StopStep, AfterStopStep, DeleteStep, UnusedStep,
     MoveStep, PollStep, DiesStep, TubeStep
     DEF YoutubeNext
<1>3. QED BY <1>1, <1>2

\* Creates, starts, stops, moves and deletions of a broadcast on a connected
\* channel, with any call to YouTube and any write that the next step waits for
\* failing, the server dying between any two, and YouTube and people in Studio
\* changing what they like: a row names a broadcast that was made, a request
\* holds what it needs, the key is that of the row's stream unless a renewal
\* broke off between the two, and what a start is about to use is bound and
\* not over unless that changed on YouTube.
THEOREM YoutubeInvariance == YoutubeSpec => []YoutubeInv
<1>1. YoutubeInit => YoutubeInv
  BY YoutubeInvInit
<1>2. YoutubeInv /\ [YoutubeNext]_youtubeVars => YoutubeInv'
  BY YoutubeInvStep
<1>3. QED BY <1>1, <1>2, PTL DEF YoutubeSpec

\* What is sent goes to the broadcast the row names, which is not over, or where
\* its owner has moved it,
\* nothing half made is left once a request is done, and what the audit calls
\* confirmed has a picture (youtube.rs, audit.rs), with the exceptions that
\* the three parts name.
THEOREM ChannelStaysWhole == YoutubeSpec => []ChannelIsWhole
<1>1. YoutubeInv => SendsToWhatIsWatched
  BY DEF YoutubeInv, SendsToWhatIsWatched, KeyIsTheStreams, BroadcastIsReady
<1>2. YoutubeInv => NothingHalfMade
  <2>1. ASSUME YoutubeInv, req = Idle0, ~seen.late, ~seen.torn
        PROVE  /\ yrow.there => yrow.yb # 0 /\ (dest.there \/ seen.moved)
               /\ dest.there => dest.key # 0 /\ (yrow.there => dest.key = yrow.ys)
    <3>1. req.then = "idle" /\ req.pc = "idle"
      BY <2>1 DEF Idle0
    <3>2. QED BY <2>1, <3>1 DEF YoutubeInv, HalvesMatch, KeyIsTheStreams, Connected
  <2>2. QED BY <2>1 DEF NothingHalfMade
<1>3. YoutubeInv => ConfirmedMeansWatched
  <2>1. ASSUME YoutubeInv, Verdict = "confirmed", ~seen.torn
        PROVE  /\ tube.life[yrow.yb] = "live" /\ sender # 0
               /\ tube.bound[yrow.yb] = sender \/ (sender = Elsewhere /\ seen.moved)
    <3>1. /\ tube.bound[yrow.yb] = yrow.ys /\ tube.life[yrow.yb] = "live" /\ sender # 0
      BY <2>1 DEF Verdict, classify
    <3>2. QED BY <2>1, <3>1 DEF YoutubeInv, KeyIsTheStreams
  <2>2. QED BY <2>1 DEF ConfirmedMeansWatched
<1>4. YoutubeInv => ChannelIsWhole
  BY <1>1, <1>2, <1>3 DEF ChannelIsWhole
<1>5. QED BY <1>4, YoutubeInvariance, PTL
=============================================================================
