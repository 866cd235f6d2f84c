-------------------------- MODULE StorefrontProofs --------------------------
(***************************************************************************)
(* Proofs about Storefront for every number of requests, members, tokens   *)
(* and addresses.  The argument: a token is drawn once, so that a session  *)
(* that has ended has no second life, and what a request has captured (the *)
(* id of the member that logs in, the row of the address) stays true of    *)
(* the rows it was read from, whatever happens to emails, addresses and    *)
(* the cookie until its next call.                                         *)
(***************************************************************************)
EXTENDS Storefront, TLAPS

(* A login that has passed holds the id of a member with that password.    *)
LoginKnows == \A r \in Request : pc[r] = "issue" =>
  /\ member[r] \in Member /\ secret[r] \in Password
  /\ email[member[r]] # NULL /\ hash[member[r]] = secret[r]

(* Sessions belong to members; ended sessions and all tokens in use were   *)
(* issued before.                                                          *)
SessionsKnown == \A t \in Token : sessions[t] # NULL =>
  /\ t \in issued
  /\ email[sessions[t].member] # NULL

TokensIssued ==
  /\ jar # NULL => jar \in issued
  /\ ended \subseteq issued
  /\ \A r \in Request :
       /\ token[r] # NULL => token[r] \in issued
       /\ pc[r] \in {"cookie", "delete", "clear", "page", "session"} => token[r] # NULL

EndedIsDead == \A t \in ended : Left(t) = 0

(* What a request knows at each point of its way.                          *)
LateIsEnded == \A r \in Request : late[r] =>
  token[r] \in ended /\ pc[r] \in {"delete", "clear", "page", "session"}

IdleForgets == \A r \in Request : pc[r] = "idle" => member[r] = NULL

ActsAs == \A r \in Request :
  /\ pc[r] \in {"session", "address"} => choice[r] \in AddressId
  /\ pc[r] \in {"list", "address", "checkout"} => member[r] \in Member
  /\ pc[r] = "checkout" => address[r] \in Address /\ address[r].member = member[r]

IInv ==
  /\ TypeOK
  /\ LoginKnows /\ SessionsKnown /\ SessionOfPassword
  /\ TokensIssued /\ EndedIsDead
  /\ LateIsEnded /\ IdleForgets /\ EndedSessionsActForNobody
  /\ ActsAs /\ ShipsToOwnAddress
  /\ CookieOutlivesSession

-----------------------------------------------------------------------------
(* What the statements on sessions do to a typed table.                    *)
LEMMA CreatedSession ==
  ASSUME MembersTypeOK, NEW t \in Token, NEW m \in Member, CreateSession(t, m)
  PROVE  /\ sessions' \in [Token -> Session \cup {NULL}]
         /\ sessions'[t] = [member |-> m, left |-> TTL]
         /\ \A u \in Token \ {t} : sessions'[u] = sessions[u]
         /\ Left(t)' = TTL /\ \A u \in Token \ {t} : Left(u)' = Left(u)
  <1>1. [member |-> m, left |-> TTL] \in Session  BY MembersAssumption DEF Session
  <1>2. sessions' = [sessions EXCEPT ![t] = [member |-> m, left |-> TTL]]  BY DEF CreateSession
  <1>3. /\ sessions'[t] = [member |-> m, left |-> TTL]
        /\ \A u \in Token \ {t} : sessions'[u] = sessions[u]
    BY <1>2 DEF MembersTypeOK
  <1>4. sessions' \in [Token -> Session \cup {NULL}]  BY <1>1, <1>2 DEF MembersTypeOK
  <1>5. sessions'[t] # NULL  BY <1>1, <1>3, MembersAssumption
  <1> QED  BY <1>3, <1>4, <1>5 DEF Left

LEMMA DeletedSession ==
  ASSUME MembersTypeOK, NEW t \in Token, DeleteSession(t)
  PROVE  /\ sessions' \in [Token -> Session \cup {NULL}]
         /\ Left(t)' = 0
         /\ \A u \in Token : sessions'[u] # NULL => sessions'[u] = sessions[u]
         /\ \A u \in Token \ {t} : Left(u)' = Left(u)
  BY DEF MembersTypeOK, DeleteSession, Left

(* The clock takes one from what is left and leaves the owner alone.       *)
LEMMA AgedSession ==
  ASSUME MembersTypeOK, Age, NEW t \in Token
  PROVE  /\ sessions'[t] \in Session \cup {NULL}
         /\ sessions'[t] # NULL => sessions[t] # NULL /\ sessions'[t].member = sessions[t].member
         /\ Left(t) \in 0..TTL
         /\ Left(t)' = IF Left(t) = 0 THEN 0 ELSE Left(t) - 1
  <1>0. NULL \notin Session /\ TTL \in Nat  BY MembersAssumption
  <1>1. sessions'[t] = IF Left(t) = 0 THEN sessions[t]
                       ELSE [sessions[t] EXCEPT !.left = @ - 1]
    BY DEF Age
  <1>2. CASE Left(t) = 0
    BY <1>0, <1>1, <1>2 DEF MembersTypeOK, Left
  <1>3. CASE Left(t) # 0
    <2>1. sessions[t] \in Session  BY <1>3 DEF MembersTypeOK, Left
    <2>2. PICK m \in Member, n \in 0..TTL : sessions[t] = [member |-> m, left |-> n]
      BY <2>1 DEF Session
    <2>3. n # 0 /\ Left(t) = n  BY <1>3, <2>2, <2>1, <1>0 DEF Left
    <2>4. sessions'[t] = [member |-> m, left |-> n - 1]  BY <1>1, <1>3, <2>2
    <2>5. n - 1 \in 0..TTL  BY <2>3, <1>0
    <2>6. sessions'[t] \in Session  BY <2>4, <2>5 DEF Session
    <2>7. Left(t)' = n - 1  BY <2>4, <2>6, <1>0 DEF Left
    <2> QED  BY <2>1, <2>2, <2>3, <2>4, <2>6, <2>7, <1>0
  <1> QED  BY <1>2, <1>3

LEMMA NullIsNothing ==
  /\ NULL \notin Email /\ NULL \notin Token /\ NULL \notin Session
  /\ NULL \notin Address /\ NULL \notin Member
  /\ NoPassword \notin Password /\ TTL \in Nat \ {0}
  BY MembersAssumption

(* The statements on members and addresses keep the tables typed, and a    *)
(* member keeps its password and never goes.                               *)
LEMMA MembersChanged ==
  ASSUME MembersTypeOK, ChangeMember
  PROVE  /\ email' \in [Member -> Email \cup {NULL}]
         /\ hash' \in [Member -> Password \cup {NoPassword}]
         /\ \A m \in Member : email[m] # NULL => email'[m] # NULL /\ hash'[m] = hash[m]
  <1>1. PICK m \in Member, e \in Email :
          (\E p \in Password : CreateMember(m, e, p)) \/ UpdateMember(m, e)
    BY DEF ChangeMember
  <1>2. ASSUME NEW p \in Password, CreateMember(m, e, p)
        PROVE  /\ email' \in [Member -> Email \cup {NULL}]
               /\ hash' \in [Member -> Password \cup {NoPassword}]
               /\ \A n \in Member : email[n] # NULL => email'[n] # NULL /\ hash'[n] = hash[n]
    BY <1>2, NullIsNothing DEF CreateMember, MembersTypeOK
  <1>3. ASSUME UpdateMember(m, e)
        PROVE  /\ email' \in [Member -> Email \cup {NULL}]
               /\ hash' \in [Member -> Password \cup {NoPassword}]
               /\ \A n \in Member : email[n] # NULL => email'[n] # NULL /\ hash'[n] = hash[n]
    BY <1>3, NullIsNothing DEF UpdateMember, MembersTypeOK
  <1> QED  BY <1>1, <1>2, <1>3

LEMMA AddressesChanged ==
  ASSUME MembersTypeOK, ChangeAddress
  PROVE  addresses' \in [AddressId -> Address \cup {NULL}] /\ lastAddress' \in 0..MaxAddress
  <1>0. MaxAddress \in Nat  BY MembersAssumption
  <1>1. PICK m \in Member :
          \/ \E city \in City : CreateAddress(m, city)
          \/ \E a \in AddressId, city \in City : UpdateAddress(m, a, city)
          \/ \E a \in AddressId : DeleteAddress(m, a)
    BY DEF ChangeAddress
  <1>2. ASSUME NEW city \in City, CreateAddress(m, city)
        PROVE  addresses' \in [AddressId -> Address \cup {NULL}] /\ lastAddress' \in 0..MaxAddress
    <2>1. [member |-> m, city |-> city] \in Address  BY DEF Address
    <2>2. lastAddress' \in 0..MaxAddress  BY <1>0, <1>2 DEF CreateAddress, MembersTypeOK
    <2> QED  BY <1>2, <2>1, <2>2 DEF CreateAddress, MembersTypeOK
  <1>3. ASSUME NEW a \in AddressId, NEW city \in City, UpdateAddress(m, a, city)
        PROVE  addresses' \in [AddressId -> Address \cup {NULL}] /\ lastAddress' \in 0..MaxAddress
    <2>1. addresses[a] \in Address  BY <1>3 DEF UpdateAddress, GetAddress, MembersTypeOK
    <2>2. [addresses[a] EXCEPT !.city = city] \in Address  BY <2>1 DEF Address
    <2> QED  BY <1>3, <2>2 DEF UpdateAddress, MembersTypeOK
  <1>4. ASSUME NEW a \in AddressId, DeleteAddress(m, a)
        PROVE  addresses' \in [AddressId -> Address \cup {NULL}] /\ lastAddress' \in 0..MaxAddress
    BY <1>4 DEF DeleteAddress, MembersTypeOK
  <1> QED  BY <1>1, <1>2, <1>3, <1>4

-----------------------------------------------------------------------------
(* No step breaks a type.                                                  *)
LEMMA TypeStep == TypeOK /\ TokensIssued /\ ActsAs /\ LoginKnows /\ [Next]_vars => TypeOK'
  <1> SUFFICES ASSUME TypeOK, TokensIssued, ActsAs, LoginKnows, [Next]_vars  PROVE TypeOK'
    OBVIOUS
  <1> USE NullIsNothing DEF TypeOK, Goes
  <1>1. CASE UNCHANGED vars
    BY <1>1 DEF vars, memberVars, sessionVars, addressVars, browserVars, requestVars, MembersTypeOK
  <1>2. CASE ChangeMember
    BY <1>2, MembersChanged
    DEF ChangeMember, sessionVars, addressVars, browserVars, requestVars, MembersTypeOK
  <1>3. CASE ChangeAddress
    BY <1>3, AddressesChanged
    DEF ChangeAddress, sessionVars, memberVars, browserVars, requestVars, MembersTypeOK
  <1>4. CASE Tick
    <2>1. sessions' \in [Token -> Session \cup {NULL}] /\ ended' \subseteq Token /\ issued' = issued
      <3>1. DOMAIN sessions' = Token /\ sessions' = [t \in Token |-> sessions'[t]]
        BY <1>4 DEF Tick, Age
      <3>2. \A t \in Token : sessions'[t] \in Session \cup {NULL}
        BY <1>4, AgedSession DEF Tick
      <3> QED  BY <1>4, <3>1, <3>2 DEF Tick, Age, MembersTypeOK
    <2>2. maxAge' \in 0..TTL /\ jar' \in Token \cup {NULL}  BY <1>4 DEF Tick
    <2> QED  BY <1>4, <2>1, <2>2 DEF Tick, memberVars, addressVars, requestVars, MembersTypeOK
  <1>5. ASSUME NEW r \in Request, Serve(r)  PROVE TypeOK'
    <2>0. Ends(r) => /\ pc' \in [Request -> {"idle"} \cup Busy]
                     /\ token' \in [Request -> Token \cup {NULL}]
                     /\ member' \in [Request -> Member \cup {NULL}]
                     /\ secret' \in [Request -> Password \cup {NULL}]
                     /\ choice' \in [Request -> AddressId \cup {0}]
                     /\ address' \in [Request -> Address \cup {NULL}]
                     /\ late' \in [Request -> BOOLEAN]
      BY DEF Ends
    <2>s. ASSUME NEW to \in Busy, Sends(r, to)
          PROVE  /\ pc' \in [Request -> {"idle"} \cup Busy]
                 /\ token' \in [Request -> Token \cup {NULL}]
                 /\ late' \in [Request -> BOOLEAN]
      BY <2>s DEF Sends
    <2> USE DEF vars, memberVars, sessionVars, addressVars, browserVars, requestVars
    <2>1. ASSUME Fail(r)  PROVE TypeOK'
      BY <2>0, <2>1 DEF Fail, MembersTypeOK
    <2>2. ASSUME NEW e \in Email, NEW p \in Password, Login(r, e, p)  PROVE TypeOK'
      BY <2>2 DEF Login, Credentials, MembersTypeOK, Busy
    <2>3. ASSUME NEW t \in Token, IssueSession(r, t)  PROVE TypeOK'
      <3>1. member[r] \in Member /\ secret[r] \in Password  BY <2>3 DEF IssueSession, LoginKnows
      <3>2. sessions' \in [Token -> Session \cup {NULL}]
        BY <2>3, <3>1, CreatedSession DEF IssueSession
      <3>3. issued' \subseteq Token /\ ended' \subseteq Token
        BY <2>3 DEF IssueSession, CreateSession, MembersTypeOK
      <3> QED  BY <2>3, <3>1, <3>2, <3>3 DEF IssueSession, MembersTypeOK, Busy
    <2>4. ASSUME SetCookie(r)  PROVE TypeOK'
      BY <2>0, <2>4 DEF SetCookie, MembersTypeOK
    <2>5. ASSUME Logout(r)  PROVE TypeOK'
      BY <2>s, <2>5 DEF Logout, MembersTypeOK, Busy
    <2>6. ASSUME Revoke(r)  PROVE TypeOK'
      <3>1. token[r] \in Token  BY <2>6 DEF Revoke, TokensIssued
      <3>2. /\ sessions' \in [Token -> Session \cup {NULL}]
            /\ issued' \subseteq Token /\ ended' \subseteq Token
        <4>1. CASE DeleteSession(token[r])
          BY <3>1, <4>1, DeletedSession DEF DeleteSession, MembersTypeOK
        <4>2. CASE UNCHANGED sessionVars  BY <4>2 DEF MembersTypeOK
        <4> QED  BY <2>6, <4>1, <4>2 DEF Revoke
      <3> QED  BY <2>6, <3>2 DEF Revoke, MembersTypeOK, Busy
    <2>7. ASSUME ClearCookie(r)  PROVE TypeOK'
      BY <2>0, <2>7 DEF ClearCookie, MembersTypeOK
    <2>8. ASSUME OpenCheckout(r)  PROVE TypeOK'
      BY <2>s, <2>8 DEF OpenCheckout, MembersTypeOK, Busy
    <2>9. ASSUME NEW from, NEW to \in Busy, CurrentMember(r, from, to)  PROVE TypeOK'
      BY <2>9 DEF CurrentMember, GetSession, MembersTypeOK
    <2>10. ASSUME ShowCheckout(r)  PROVE TypeOK'
      BY <2>0, <2>10 DEF ShowCheckout, ListAddresses, MembersTypeOK
    <2>11. ASSUME NEW a \in AddressId, Submit(r, a)  PROVE TypeOK'
      BY <2>s, <2>11 DEF Submit, MembersTypeOK, Busy
    <2>12. ASSUME ResolveAddress(r)  PROVE TypeOK'
      <3>1. addresses[choice[r]] # NULL /\ member[r] \in Member
        BY <2>12 DEF ResolveAddress, GetAddress, ActsAs
      <3>2. addresses[choice[r]] \in Address
        BY <2>12, <3>1 DEF MembersTypeOK, ResolveAddress, ActsAs
      <3> QED  BY <2>12, <3>1, <3>2 DEF ResolveAddress, MembersTypeOK, Busy
    <2>13. ASSUME PlaceOrder(r)  PROVE TypeOK'
      <3>1. member[r] \in Member /\ address[r] \in Address
        BY <2>13 DEF PlaceOrder, ActsAs
      <3> QED  BY <2>0, <2>13, <3>1 DEF PlaceOrder, MembersTypeOK
    <2> QED
      BY <1>5, <2>1, <2>2, <2>3, <2>4, <2>5, <2>6, <2>7, <2>8, <2>9, <2>10, <2>11, <2>12, <2>13
      DEF Serve, Busy
  <1> QED  BY <1>1, <1>2, <1>3, <1>4, <1>5 DEF Next

-----------------------------------------------------------------------------
(* What a request knows: its choice, whom it acts for, its address.        *)
LEMMA ActsStep == TypeOK /\ ActsAs /\ [Next]_vars => ActsAs'
  <1> SUFFICES ASSUME TypeOK, ActsAs, [Next]_vars  PROVE ActsAs'
    OBVIOUS
  <1> USE DEF TypeOK, Goes, ActsAs
  <1>1. CASE UNCHANGED vars
    BY <1>1 DEF vars, requestVars
  <1>2. CASE ChangeMember \/ ChangeAddress \/ Tick
    BY <1>2 DEF ChangeMember, ChangeAddress, Tick, requestVars
  <1>3. ASSUME NEW r \in Request, Serve(r)  PROVE ActsAs'
    <2>0. Ends(r) => ActsAs'  BY DEF Ends
    <2>1. CASE Fail(r) \/ SetCookie(r) \/ ClearCookie(r) \/ ShowCheckout(r) \/ PlaceOrder(r)
      BY <2>0, <2>1 DEF Fail, SetCookie, ClearCookie, ShowCheckout, PlaceOrder
    <2>2. ASSUME NEW e \in Email, NEW p \in Password, Login(r, e, p)  PROVE ActsAs'
      BY <2>2 DEF Login
    <2>3. ASSUME NEW t \in Token, IssueSession(r, t)  PROVE ActsAs'
      BY <2>3 DEF IssueSession
    <2>4. CASE Logout(r) \/ Revoke(r) \/ OpenCheckout(r)
      BY <2>4 DEF Logout, Revoke, OpenCheckout, Sends
    <2>5. ASSUME NEW a \in AddressId, Submit(r, a)  PROVE ActsAs'
      BY <2>5 DEF Submit, Sends
    <2>6. CASE CurrentMember(r, "page", "list")
      BY <2>6 DEF CurrentMember, GetSession
    <2>7. CASE CurrentMember(r, "session", "address")
      BY <2>7 DEF CurrentMember, GetSession
    <2>8. CASE ResolveAddress(r)
      <3>1. addresses[choice[r]] \in Address /\ addresses[choice[r]].member = member[r]
        BY <2>8 DEF ResolveAddress, GetAddress, MembersTypeOK
      <3> QED  BY <2>8, <3>1 DEF ResolveAddress
    <2> QED  BY <1>3, <2>1, <2>2, <2>3, <2>4, <2>5, <2>6, <2>7, <2>8 DEF Serve
  <1> QED  BY <1>1, <1>2, <1>3 DEF Next

LEMMA ShipsStep == TypeOK /\ ActsAs /\ ShipsToOwnAddress /\ [Next]_vars => ShipsToOwnAddress'
  <1> SUFFICES ASSUME TypeOK, ActsAs, ShipsToOwnAddress, [Next]_vars  PROVE ShipsToOwnAddress'
    OBVIOUS
  <1>1. ASSUME NEW r \in Request, PlaceOrder(r)  PROVE ShipsToOwnAddress'
    BY <1>1 DEF PlaceOrder, ActsAs, ShipsToOwnAddress
  <1>2. CASE UNCHANGED placed
    BY <1>2 DEF ShipsToOwnAddress
  <1> QED
    BY <1>1, <1>2 DEF Next, Serve, vars, ChangeMember, ChangeAddress, Tick, Fail, Login,
       IssueSession, SetCookie, Logout, Revoke, ClearCookie, CurrentMember, OpenCheckout,
       ShowCheckout, Submit, ResolveAddress

-----------------------------------------------------------------------------
(* From the lookup of a login to its session.                              *)
LEMMA LoginStep == TypeOK /\ LoginKnows /\ [Next]_vars => LoginKnows'
  <1> SUFFICES ASSUME TypeOK, LoginKnows, [Next]_vars  PROVE LoginKnows'
    OBVIOUS
  <1> USE DEF TypeOK, Goes, LoginKnows
  <1>1. CASE UNCHANGED vars
    BY <1>1 DEF vars, requestVars, memberVars
  <1>2. CASE ChangeMember
    BY <1>2, MembersChanged DEF ChangeMember, requestVars
  <1>3. CASE ChangeAddress \/ Tick
    BY <1>3 DEF ChangeAddress, Tick, requestVars, memberVars
  <1>4. ASSUME NEW r \in Request, Serve(r)  PROVE LoginKnows'
    <2>1. ASSUME NEW e \in Email, NEW p \in Password, Login(r, e, p)  PROVE LoginKnows'
      BY <2>1, NullIsNothing DEF Login, Credentials, memberVars
    <2>2. CASE /\ UNCHANGED memberVars /\ pc'[r] # "issue"
               /\ \A q \in Request \ {r} :
                    pc'[q] = pc[q] /\ member'[q] = member[q] /\ secret'[q] = secret[q]
      BY <2>2 DEF memberVars
    <2>3. Ends(r) => /\ pc'[r] # "issue"
                     /\ \A q \in Request \ {r} :
                          pc'[q] = pc[q] /\ member'[q] = member[q] /\ secret'[q] = secret[q]
      BY DEF Ends
    <2>4. CASE Fail(r) \/ SetCookie(r) \/ ClearCookie(r) \/ ShowCheckout(r) \/ PlaceOrder(r)
      BY <2>2, <2>3, <2>4 DEF Fail, SetCookie, ClearCookie, ShowCheckout, PlaceOrder
    <2>5. ASSUME NEW t \in Token, IssueSession(r, t)  PROVE LoginKnows'
      BY <2>5, <2>2 DEF IssueSession
    <2>6. CASE Logout(r) \/ Revoke(r) \/ OpenCheckout(r) \/ ResolveAddress(r)
      BY <2>6, <2>2 DEF Logout, Revoke, OpenCheckout, Sends, ResolveAddress
    <2>7. ASSUME NEW a \in AddressId, Submit(r, a)  PROVE LoginKnows'
      BY <2>7, <2>2 DEF Submit, Sends
    <2>8. ASSUME NEW from, NEW to \in {"list", "address"}, CurrentMember(r, from, to)
          PROVE LoginKnows'
      BY <2>8, <2>2 DEF CurrentMember
    <2> QED  BY <1>4, <2>1, <2>4, <2>5, <2>6, <2>7, <2>8 DEF Serve
  <1> QED  BY <1>1, <1>2, <1>3, <1>4 DEF Next

(* A row of sessions is written once, by the login that drew its token.    *)
LEMMA SessionStep ==
  TypeOK /\ LoginKnows /\ TokensIssued /\ SessionsKnown /\ SessionOfPassword /\ [Next]_vars
    => SessionsKnown' /\ SessionOfPassword'
  <1> SUFFICES ASSUME TypeOK, LoginKnows, TokensIssued, SessionsKnown, SessionOfPassword, [Next]_vars
               PROVE  SessionsKnown' /\ SessionOfPassword'
    OBVIOUS
  <1> USE NullIsNothing DEF SessionsKnown, SessionOfPassword
  <1>m. \A t \in Token : sessions[t] # NULL => sessions[t].member \in Member
    BY DEF TypeOK, MembersTypeOK, Session
  <1>1. CASE UNCHANGED <<memberVars, sessionVars, presented>>
    BY <1>1 DEF memberVars, sessionVars
  <1>2. CASE ChangeMember
    BY <1>2, <1>m, MembersChanged DEF ChangeMember, sessionVars, TypeOK
  <1>3. CASE Tick
    <2>1. UNCHANGED <<email, hash, presented, issued>>  BY <1>3 DEF Tick, Age, memberVars
    <2>2. \A t \in Token : sessions'[t] # NULL =>
            sessions[t] # NULL /\ sessions'[t].member = sessions[t].member
      BY <1>3, AgedSession DEF Tick, TypeOK
    <2> QED  BY <2>1, <2>2
  <1>4. ASSUME NEW r \in Request, NEW t \in Token, IssueSession(r, t)
        PROVE  SessionsKnown' /\ SessionOfPassword'
    <2>1. /\ member[r] \in Member /\ secret[r] \in Password
          /\ email[member[r]] # NULL /\ hash[member[r]] = secret[r]
      BY <1>4 DEF IssueSession, LoginKnows, Goes
    <2>2. /\ t \notin issued /\ issued' = issued \cup {t}
          /\ presented' = [presented EXCEPT ![t] = secret[r]]
          /\ UNCHANGED <<email, hash>>
      BY <1>4 DEF IssueSession, CreateSession, memberVars
    <2>3. /\ sessions'[t] = [member |-> member[r], left |-> TTL]
          /\ \A u \in Token \ {t} : sessions'[u] = sessions[u]
      BY <1>4, <2>1, CreatedSession DEF IssueSession, TypeOK
    <2>4. presented'[t] = secret[r] /\ \A u \in Token \ {t} : presented'[u] = presented[u]
      BY <2>2 DEF TypeOK
    <2> QED  BY <2>1, <2>2, <2>3, <2>4
  <1>5. ASSUME NEW r \in Request, Revoke(r)  PROVE SessionsKnown' /\ SessionOfPassword'
    <2>1. token[r] \in Token  BY <1>5 DEF Revoke, TokensIssued, TypeOK, Goes
    <2>2. UNCHANGED <<email, hash, presented, issued>>
      BY <1>5 DEF Revoke, DeleteSession, memberVars, sessionVars
    <2>3. \A u \in Token : sessions'[u] # NULL => sessions'[u] = sessions[u]
      BY <1>5, <2>1, DeletedSession DEF Revoke, sessionVars, TypeOK
    <2> QED  BY <2>2, <2>3
  <1> QED
    BY <1>1, <1>2, <1>3, <1>4, <1>5 DEF Next, Serve, vars, ChangeAddress, Fail, Login,
       SetCookie, Logout, ClearCookie, CurrentMember, OpenCheckout,
       ShowCheckout, Submit, ResolveAddress, PlaceOrder

-----------------------------------------------------------------------------
(* Ended sessions: their tokens have been issued, so no login draws them.  *)
LEMMA TokenStep == TypeOK /\ SessionsKnown /\ TokensIssued /\ [Next]_vars => TokensIssued'
  <1> SUFFICES ASSUME TypeOK, SessionsKnown, TokensIssued, [Next]_vars  PROVE TokensIssued'
    OBVIOUS
  <1> USE NullIsNothing DEF TypeOK, Goes, TokensIssued
  <1>1. CASE UNCHANGED vars
    BY <1>1 DEF vars, requestVars, sessionVars, browserVars
  <1>2. CASE ChangeMember \/ ChangeAddress
    BY <1>2 DEF ChangeMember, ChangeAddress, requestVars, sessionVars, browserVars
  <1>3. CASE Tick
    <2>1. \A t \in Token : Left(t) = 1 => t \in issued
      BY DEF Left, SessionsKnown
    <2> QED  BY <1>3, <2>1 DEF Tick, Age, requestVars
  <1>4. ASSUME NEW r \in Request, Serve(r)  PROVE TokensIssued'
    <2>0. Ends(r) => /\ \A q \in Request : token'[q] \in {token[q], NULL}
                     /\ \A q \in Request \ {r} : pc'[q] = pc[q] /\ token'[q] = token[q]
                     /\ pc'[r] = "idle"
      BY DEF Ends
    <2> USE DEF browserVars, sessionVars
    <2>1. CASE Fail(r) \/ SetCookie(r) \/ ClearCookie(r) \/ ShowCheckout(r) \/ PlaceOrder(r)
      BY <2>0, <2>1 DEF Fail, SetCookie, ClearCookie, ShowCheckout, PlaceOrder
    <2>2. ASSUME NEW e \in Email, NEW p \in Password, Login(r, e, p)  PROVE TokensIssued'
      BY <2>2 DEF Login
    <2>3. ASSUME NEW t \in Token, IssueSession(r, t)  PROVE TokensIssued'
      BY <2>3 DEF IssueSession, CreateSession
    <2>4. ASSUME NEW to, Sends(r, to), UNCHANGED <<jar, issued, ended>>  PROVE TokensIssued'
      BY <2>4 DEF Sends
    <2>5. CASE Logout(r) \/ OpenCheckout(r)
      BY <2>4, <2>5 DEF Logout, OpenCheckout
    <2>6. CASE Revoke(r)
      <3>1. token[r] \in issued  BY <2>6 DEF Revoke
      <3> QED  BY <2>6, <3>1 DEF Revoke, DeleteSession
    <2>7. ASSUME NEW a \in AddressId, Submit(r, a)  PROVE TokensIssued'
      BY <2>4, <2>7 DEF Submit
    <2>8. ASSUME NEW from, NEW to \in {"list", "address"}, CurrentMember(r, from, to)
          PROVE TokensIssued'
      BY <2>8 DEF CurrentMember
    <2>9. CASE ResolveAddress(r)
      BY <2>9 DEF ResolveAddress
    <2> QED  BY <1>4, <2>1, <2>2, <2>3, <2>5, <2>6, <2>7, <2>8, <2>9 DEF Serve
  <1> QED  BY <1>1, <1>2, <1>3, <1>4 DEF Next

(* What is left of a session and of its cookie runs down together.         *)
LEMMA ExpiryStep ==
  TypeOK /\ LoginKnows /\ TokensIssued /\ EndedIsDead /\ CookieOutlivesSession /\ [Next]_vars
    => EndedIsDead' /\ CookieOutlivesSession'
  <1> SUFFICES ASSUME TypeOK, LoginKnows, TokensIssued, EndedIsDead, CookieOutlivesSession, [Next]_vars
               PROVE  EndedIsDead' /\ CookieOutlivesSession'
    OBVIOUS
  <1> USE NullIsNothing DEF EndedIsDead, CookieOutlivesSession
  <1>l. \A t \in Token : Left(t) \in 0..TTL
    BY DEF TypeOK, MembersTypeOK, Left, Session
  <1>e. ended \subseteq Token /\ jar \in Token \cup {NULL} /\ maxAge \in 0..TTL
    BY DEF TypeOK, MembersTypeOK
  <1>1. CASE UNCHANGED <<sessionVars, jar, maxAge>>
    BY <1>1 DEF sessionVars, Left
  <1>2. CASE Tick
    <2>1. \A t \in Token : Left(t)' = IF Left(t) = 0 THEN 0 ELSE Left(t) - 1
      BY <1>2, AgedSession DEF Tick, TypeOK
    <2>2. /\ ended' = ended \cup {t \in Token : Left(t) = 1}
          /\ maxAge' = IF maxAge = 0 THEN 0 ELSE maxAge - 1
          /\ jar' = IF maxAge' = 0 THEN NULL ELSE jar
      BY <1>2 DEF Tick, Age
    <2>3. EndedIsDead'  BY <1>e, <2>1, <2>2
    <2>4. CookieOutlivesSession'
      <3>1. CASE jar' = NULL  BY <3>1
      <3>2. CASE jar' # NULL
        <4>1. jar' = jar /\ jar \in Token /\ maxAge # 0 /\ maxAge' = maxAge - 1
          BY <1>e, <2>2, <3>2
        <4>2. Left(jar) <= maxAge /\ Left(jar) \in 0..TTL  BY <1>l, <4>1
        <4>3. (Left(jar))' <= maxAge'
          BY <1>e, <2>1, <4>1, <4>2
        <4> QED  BY <4>1, <4>3
      <3> QED  BY <3>1, <3>2
    <2> QED  BY <2>3, <2>4
  <1>3. ASSUME NEW r \in Request, NEW t \in Token, IssueSession(r, t)
        PROVE  EndedIsDead' /\ CookieOutlivesSession'
    <2>1. /\ t \notin issued /\ UNCHANGED <<ended, jar, maxAge>>
          /\ \A u \in Token \ {t} : Left(u)' = Left(u)
      BY <1>3, CreatedSession
      DEF IssueSession, CreateSession, LoginKnows, Goes, browserVars, TypeOK
    <2> QED  BY <1>e, <2>1 DEF TokensIssued
  <1>4. ASSUME NEW r \in Request, Revoke(r)  PROVE EndedIsDead' /\ CookieOutlivesSession'
    <2>1. PICK t \in Token : t = token[r]  BY <1>4 DEF Revoke, TokensIssued, TypeOK, Goes
    <2>2. UNCHANGED <<jar, maxAge>>  BY <1>4 DEF Revoke, browserVars
    <2>3. CASE UNCHANGED sessionVars  BY <1>1, <2>2, <2>3
    <2>4. CASE DeleteSession(t)
      <3>1. /\ Left(t)' = 0 /\ ended' = ended \cup {t}
            /\ \A u \in Token \ {t} : Left(u)' = Left(u)
        BY <2>4, DeletedSession DEF DeleteSession, TypeOK
      <3>2. EndedIsDead'  BY <1>e, <3>1
      <3>3. CookieOutlivesSession'
        <4>1. CASE jar = NULL  BY <2>2, <4>1
        <4>2. CASE jar = t  BY <1>e, <2>2, <3>1, <4>2
        <4>3. CASE jar \in Token \ {t}  BY <2>2, <3>1, <4>3
        <4> QED  BY <1>e, <4>1, <4>2, <4>3
      <3> QED  BY <3>2, <3>3
    <2> QED  BY <1>4, <2>1, <2>3, <2>4 DEF Revoke
  <1>5. ASSUME NEW r \in Request, SetCookie(r)  PROVE EndedIsDead' /\ CookieOutlivesSession'
    <2>1. token[r] \in Token  BY <1>5 DEF SetCookie, TokensIssued, TypeOK
    <2>2. UNCHANGED sessionVars /\ jar' = token[r] /\ maxAge' = TTL  BY <1>5 DEF SetCookie
    <2>3. (Left(jar))' = Left(token[r])  BY <2>2 DEF sessionVars, Left
    <2> QED  BY <1>l, <2>1, <2>2, <2>3 DEF sessionVars, Left
  <1>6. ASSUME NEW r \in Request, ClearCookie(r)  PROVE EndedIsDead' /\ CookieOutlivesSession'
    BY <1>6 DEF ClearCookie, sessionVars, Left
  <1> QED
    BY <1>1, <1>2, <1>3, <1>4, <1>5, <1>6
    DEF Next, Serve, vars, ChangeMember, ChangeAddress, Fail, Login, Logout, CurrentMember,
       OpenCheckout, ShowCheckout, Submit, ResolveAddress, PlaceOrder, browserVars

(* A request sent too late learns of no member.                            *)
LEMMA LateStep ==
  TypeOK /\ TokensIssued /\ EndedIsDead /\ LateIsEnded /\ IdleForgets
    /\ EndedSessionsActForNobody /\ [Next]_vars
    => LateIsEnded' /\ IdleForgets' /\ EndedSessionsActForNobody'
  <1> SUFFICES ASSUME TypeOK, TokensIssued, EndedIsDead, LateIsEnded, IdleForgets,
                      EndedSessionsActForNobody, [Next]_vars
               PROVE  LateIsEnded' /\ IdleForgets' /\ EndedSessionsActForNobody'
    OBVIOUS
  <1> USE NullIsNothing DEF TypeOK, Goes, LateIsEnded, IdleForgets, EndedSessionsActForNobody
  <1>1. CASE UNCHANGED requestVars /\ ended \subseteq ended'
    BY <1>1 DEF requestVars
  <1>2. CASE UNCHANGED vars \/ ChangeMember \/ ChangeAddress \/ Tick
    BY <1>1, <1>2 DEF vars, ChangeMember, ChangeAddress, Tick, Age, sessionVars
  <1>3. ASSUME NEW r \in Request, Serve(r)
        PROVE  LateIsEnded' /\ IdleForgets' /\ EndedSessionsActForNobody'
    <2> USE DEF sessionVars
    <2>0. Ends(r) /\ UNCHANGED ended => LateIsEnded' /\ IdleForgets' /\ EndedSessionsActForNobody'
      BY DEF Ends
    <2>1. CASE Fail(r) \/ SetCookie(r) \/ ClearCookie(r) \/ ShowCheckout(r) \/ PlaceOrder(r)
      BY <2>0, <2>1 DEF Fail, SetCookie, ClearCookie, ShowCheckout, PlaceOrder
    <2>2. ASSUME NEW e \in Email, NEW p \in Password, Login(r, e, p)
          PROVE LateIsEnded' /\ IdleForgets' /\ EndedSessionsActForNobody'
      BY <2>2 DEF Login, Credentials
    <2>3. ASSUME NEW t \in Token, IssueSession(r, t)
          PROVE LateIsEnded' /\ IdleForgets' /\ EndedSessionsActForNobody'
      BY <2>3 DEF IssueSession, CreateSession
    <2>4. ASSUME NEW to \in {"delete", "page", "session"}, Sends(r, to), UNCHANGED <<ended, member>>
          PROVE LateIsEnded' /\ IdleForgets' /\ EndedSessionsActForNobody'
      BY <2>4 DEF Sends
    <2>5. CASE Logout(r) \/ OpenCheckout(r)
      BY <2>4, <2>5 DEF Logout, OpenCheckout
    <2>6. CASE Revoke(r)
      BY <2>6 DEF Revoke, DeleteSession
    <2>7. ASSUME NEW a \in AddressId, Submit(r, a)
          PROVE LateIsEnded' /\ IdleForgets' /\ EndedSessionsActForNobody'
      BY <2>4, <2>7 DEF Submit
    <2>8. ASSUME NEW from \in {"page", "session"}, NEW to \in {"list", "address"},
                 CurrentMember(r, from, to)
          PROVE LateIsEnded' /\ IdleForgets' /\ EndedSessionsActForNobody'
      <3>1. PICK m \in Member : /\ sessions[token[r]] # NULL /\ sessions[token[r]].left > 0
                                /\ member' = [member EXCEPT ![r] = m]
        BY <2>8 DEF CurrentMember, GetSession
      <3>2. token[r] \in Token  BY <2>8 DEF CurrentMember, TokensIssued
      <3>3. Left(token[r]) > 0  BY <3>1 DEF Left
      <3>4. token[r] \notin ended  BY <3>2, <3>3 DEF EndedIsDead
      <3>5. ~late[r]  BY <3>4
      <3> QED  BY <2>8, <3>1, <3>5 DEF CurrentMember
    <2>9. CASE ResolveAddress(r)
      BY <2>9 DEF ResolveAddress
    <2> QED  BY <1>3, <2>1, <2>2, <2>3, <2>5, <2>6, <2>7, <2>8, <2>9 DEF Serve
  <1> QED  BY <1>2, <1>3 DEF Next

-----------------------------------------------------------------------------
LEMMA InvInit == Init => IInv
  <1> SUFFICES ASSUME Init  PROVE IInv
    OBVIOUS
  <1> USE NullIsNothing DEF Init, MembersInit
  <1>1. TypeOK
    <2>1. email \in [Member -> Email \cup {NULL}]
      <3>1. PICK e \in Legacy \cup {NULL} : email = [m \in Member |-> IF m = 1 THEN e ELSE NULL]
        OBVIOUS
      <3> QED  BY <3>1, MembersAssumption
    <2>2. MembersTypeOK  BY <2>1, MembersAssumption DEF MembersTypeOK
    <2> QED  BY <2>2 DEF TypeOK
  <1>2. LoginKnows /\ SessionsKnown /\ SessionOfPassword
    BY DEF LoginKnows, SessionsKnown, SessionOfPassword
  <1>3. TokensIssued /\ EndedIsDead /\ CookieOutlivesSession
    BY DEF TokensIssued, EndedIsDead, CookieOutlivesSession
  <1>4. LateIsEnded /\ IdleForgets /\ EndedSessionsActForNobody
    BY DEF LateIsEnded, IdleForgets, EndedSessionsActForNobody
  <1>5. ActsAs /\ ShipsToOwnAddress  BY DEF ActsAs, ShipsToOwnAddress
  <1> QED  BY <1>1, <1>2, <1>3, <1>4, <1>5 DEF IInv

LEMMA InvStep == IInv /\ [Next]_vars => IInv'
  BY TypeStep, ActsStep, ShipsStep, LoginStep, SessionStep, TokenStep, ExpiryStep, LateStep
  DEF IInv

(* The inductive invariant of the storefront.                              *)
THEOREM Invariant == Spec => []IInv
  <1>1. Init => IInv  BY InvInit
  <1>2. IInv /\ [Next]_vars => IInv'  BY InvStep
  <1> QED  BY <1>1, <1>2, PTL DEF Spec

(* Every variable keeps its type: a checkout reaches the order service with*)
(* a member and with an address.                                           *)
THEOREM TypeCorrect == Spec => []TypeOK
  <1>1. IInv => TypeOK  BY DEF IInv
  <1> QED  BY <1>1, Invariant, PTL

(* A session belongs to the member whose password was presented for it     *)
(* (CreateSession of the member service), emails changing hands or not.    *)
THEOREM SessionOwner == Spec => []SessionOfPassword
  <1>1. IInv => SessionOfPassword  BY DEF IInv
  <1> QED  BY <1>1, Invariant, PTL

(* An order ships to an address of the member who placed it (the checkout  *)
(* action and the WHERE of GetAddress), stale forms and cookies included.  *)
THEOREM AddressOwner == Spec => []ShipsToOwnAddress
  <1>1. IInv => ShipsToOwnAddress  BY DEF IInv
  <1> QED  BY <1>1, Invariant, PTL

(* A session that has ended acts for nobody any more (GetSession).         *)
THEOREM EndedIsEnded == Spec => []EndedSessionsActForNobody
  <1>1. IInv => EndedSessionsActForNobody  BY DEF IInv
  <1> QED  BY <1>1, Invariant, PTL

(* A cookie does not lapse before its session (sessionTTL and MAX_AGE_SEC).*)
THEOREM CookieLast == Spec => []CookieOutlivesSession
  <1>1. IInv => CookieOutlivesSession  BY DEF IInv
  <1> QED  BY <1>1, Invariant, PTL
=============================================================================
