----------------------------- MODULE Storefront -----------------------------
(***************************************************************************)
(* The store's server side (its BFF) between the tabs of one browser and   *)
(* the member and order services.  Tabs share one cookie.  A request takes *)
(* the cookie along as it is sent, calls the services one after the other, *)
(* and what it read may be out of date by its next call.                   *)
(***************************************************************************)
EXTENDS Members

CONSTANT Request   \* the requests the browser may have open at a time

VARIABLES
  jar,      \* the cookie member_session: its token, NULL without one
  maxAge,   \* what is left of its Max-Age
  shown,    \* the addresses checkout pages have offered so far
  pc,       \* where each request stands, "idle" when it is free
  token,    \* the token it carries, or is about to set
  member,   \* login: who has logged in; else: whose session it is
  secret,   \* login: the password it presented
  choice,   \* checkout: the shippingAddressId of the form
  address,  \* checkout: the address it has resolved
  late,     \* history: it was sent with the token of an ended session
  presented,\* history: the password each token was issued for
  placed    \* the orders placed

browserVars == <<jar, maxAge, shown>>
requestVars == <<pc, token, member, secret, choice, address, late>>
vars == <<memberVars, sessionVars, addressVars, browserVars, requestVars,
          presented, placed>>

Busy == {"issue", "cookie", "delete", "clear", "page", "list", "session",
         "address", "checkout"}

TypeOK ==
  /\ MembersTypeOK
  /\ jar \in Token \cup {NULL} /\ maxAge \in 0..TTL
  /\ shown \subseteq AddressId
  /\ pc \in [Request -> {"idle"} \cup Busy]
  /\ token \in [Request -> Token \cup {NULL}]
  /\ member \in [Request -> Member \cup {NULL}]
  /\ secret \in [Request -> Password \cup {NULL}]
  /\ choice \in [Request -> AddressId \cup {0}]
  /\ address \in [Request -> Address \cup {NULL}]
  /\ late \in [Request -> BOOLEAN]
  /\ presented \in [Token -> Password \cup {NULL}]
  /\ placed \subseteq [member : Member, address : Address]

Init ==
  /\ MembersInit
  /\ jar = NULL /\ maxAge = 0 /\ shown = {}
  /\ pc = [r \in Request |-> "idle"]
  /\ token = [r \in Request |-> NULL]
  /\ member = [r \in Request |-> NULL]
  /\ secret = [r \in Request |-> NULL]
  /\ choice = [r \in Request |-> 0]
  /\ address = [r \in Request |-> NULL]
  /\ late = [r \in Request |-> FALSE]
  /\ presented = [t \in Token |-> NULL]
  /\ placed = {}

-----------------------------------------------------------------------------
Goes(r, from, to) == pc[r] = from /\ pc' = [pc EXCEPT ![r] = to]

(* The answer leaves; what the request knew is gone.                       *)
Ends(r) ==
  /\ pc' = [pc EXCEPT ![r] = "idle"]
  /\ token' = [token EXCEPT ![r] = NULL]
  /\ member' = [member EXCEPT ![r] = NULL]
  /\ secret' = [secret EXCEPT ![r] = NULL]
  /\ choice' = [choice EXCEPT ![r] = 0]
  /\ address' = [address EXCEPT ![r] = NULL]
  /\ late' = [late EXCEPT ![r] = FALSE]

(* A call that fails, or a lost answer: the browser keeps what it has.     *)
Fail(r) ==
  /\ pc[r] \in Busy \ {"delete", "checkout"}
  /\ Ends(r)
  /\ UNCHANGED <<memberVars, sessionVars, addressVars, browserVars, presented, placed>>

-----------------------------------------------------------------------------
(* POST /login, up to the answer of the lookup; a mismatch is a 401.  The  *)
(* action asks nobody whether the browser is logged in already.            *)
Login(r, e, p) ==
  /\ Goes(r, "idle", "issue")
  /\ \E m \in Credentials(e, p) : member' = [member EXCEPT ![r] = m]
  /\ secret' = [secret EXCEPT ![r] = p]
  /\ UNCHANGED <<memberVars, sessionVars, addressVars, browserVars, token,
                 choice, address, late, presented, placed>>

IssueSession(r, t) ==
  /\ Goes(r, "issue", "cookie")
  /\ CreateSession(t, member[r])
  /\ token' = [token EXCEPT ![r] = t]
  /\ presented' = [presented EXCEPT ![t] = secret[r]]
  /\ UNCHANGED <<memberVars, addressVars, browserVars, member, secret, choice,
                 address, late, placed>>

\* BUG: Max-Age is not the TTL of the session.
SetShortCookie(r) ==
  /\ pc[r] = "cookie"
  /\ jar' = token[r] /\ maxAge' = TTL - 1
  /\ Ends(r)
  /\ UNCHANGED <<memberVars, sessionVars, addressVars, shown, presented, placed>>

(* Set-Cookie with its Max-Age, over whatever cookie is there.             *)
SetCookie(r) ==
  /\ pc[r] = "cookie"
  /\ jar' = token[r] /\ maxAge' = TTL
  /\ Ends(r)
  /\ UNCHANGED <<memberVars, sessionVars, addressVars, shown, presented, placed>>

-----------------------------------------------------------------------------
(* A request that reads the cookie.                                        *)
Sends(r, to) ==
  /\ jar # NULL
  /\ Goes(r, "idle", to)
  /\ token' = [token EXCEPT ![r] = jar]
  /\ late' = [late EXCEPT ![r] = jar \in ended]

(* POST /logout.                                                           *)
Logout(r) ==
  /\ Sends(r, "delete")
  /\ UNCHANGED <<memberVars, sessionVars, addressVars, browserVars, member,
                 secret, choice, address, presented, placed>>

(* deleteSession; its failure is logged, and the cookie goes all the same. *)
Revoke(r) ==
  /\ Goes(r, "delete", "clear")
  /\ DeleteSession(token[r]) \/ UNCHANGED sessionVars
  /\ UNCHANGED <<memberVars, addressVars, browserVars, token, member, secret,
                 choice, address, late, presented, placed>>

(* The answer clears the cookie the browser has by then.                   *)
ClearCookie(r) ==
  /\ pc[r] = "clear"
  /\ jar' = NULL /\ maxAge' = 0
  /\ Ends(r)
  /\ UNCHANGED <<memberVars, sessionVars, addressVars, shown, presented, placed>>

-----------------------------------------------------------------------------
(* currentMemberId: no member for a session that is not alive.             *)
CurrentMember(r, from, to) ==
  /\ Goes(r, from, to)
  /\ \E m \in GetSession(token[r]) : member' = [member EXCEPT ![r] = m]
  /\ UNCHANGED <<memberVars, sessionVars, addressVars, browserVars, token, secret,
                 choice, address, late, presented, placed>>

(* GET /checkout: the page with the addresses of the member.               *)
OpenCheckout(r) ==
  /\ Sends(r, "page")
  /\ UNCHANGED <<memberVars, sessionVars, addressVars, browserVars, member,
                 secret, choice, address, presented, placed>>

ShowCheckout(r) ==
  /\ pc[r] = "list"
  /\ shown' = shown \cup ListAddresses(member[r])
  /\ Ends(r)
  /\ UNCHANGED <<memberVars, sessionVars, addressVars, jar, maxAge, presented, placed>>

(* POST /checkout with the form of a page that may have been open for long *)
(* and for another member.                                                 *)
Submit(r, a) ==
  /\ a \in shown
  /\ Sends(r, "session")
  /\ choice' = [choice EXCEPT ![r] = a]
  /\ UNCHANGED <<memberVars, sessionVars, addressVars, browserVars, member,
                 secret, address, presented, placed>>

(* getAddress of the member service; a 404 refuses the form.               *)
ResolveAddress(r) ==
  /\ Goes(r, "address", "checkout")
  /\ GetAddress(member[r], choice[r])
  /\ address' = [address EXCEPT ![r] = addresses[choice[r]]]
  /\ UNCHANGED <<memberVars, sessionVars, addressVars, browserVars, token,
                 member, secret, choice, late, presented, placed>>

(* POST /checkout of the order service, which may refuse, and whose answer *)
(* may be lost after it has placed the order.                              *)
PlaceOrder(r) ==
  /\ pc[r] = "checkout"
  /\ \/ placed' = placed \cup {[member |-> member[r], address |-> address[r]]}
     \/ UNCHANGED placed
  /\ Ends(r)
  /\ UNCHANGED <<memberVars, sessionVars, addressVars, browserVars, presented>>

-----------------------------------------------------------------------------
(* Clients of the member service, and time: sessions and the cookie age.   *)
ChangeMember ==
  /\ \E m \in Member, e \in Email :
       (\E p \in Password : CreateMember(m, e, p)) \/ UpdateMember(m, e)
  /\ UNCHANGED <<sessionVars, addressVars, browserVars, requestVars, presented, placed>>

ChangeAddress ==
  /\ \E m \in Member :
       \/ \E city \in City : CreateAddress(m, city)
       \/ \E a \in AddressId, city \in City : UpdateAddress(m, a, city)
       \/ \E a \in AddressId : DeleteAddress(m, a)
  /\ UNCHANGED <<memberVars, sessionVars, browserVars, requestVars, presented, placed>>

Tick ==
  /\ Age
  /\ maxAge' = IF maxAge = 0 THEN 0 ELSE maxAge - 1
  /\ jar' = IF maxAge' = 0 THEN NULL ELSE jar
  /\ UNCHANGED <<memberVars, addressVars, shown, requestVars, presented, placed>>

Serve(r) ==
  \/ Fail(r)
  \/ \E e \in Email, p \in Password : Login(r, e, p)
  \/ \E t \in Token : IssueSession(r, t)
  \/ SetCookie(r)
  \/ Logout(r) \/ Revoke(r) \/ ClearCookie(r)
  \/ OpenCheckout(r) \/ CurrentMember(r, "page", "list") \/ ShowCheckout(r)
  \/ \E a \in AddressId : Submit(r, a)
  \/ CurrentMember(r, "session", "address") \/ ResolveAddress(r) \/ PlaceOrder(r)

Next == (\E r \in Request : Serve(r)) \/ ChangeMember \/ ChangeAddress \/ Tick

Spec == Init /\ [][Next]_vars
-----------------------------------------------------------------------------
(* A session belongs to the member whose password was presented for it,    *)
(* even when emails change hands between the lookup and the insert of a    *)
(* login; nobody has a session who has no password.                        *)
SessionOfPassword ==
  \A t \in Token : sessions[t] # NULL =>
    /\ hash[sessions[t].member] = presented[t]
    /\ presented[t] # NoPassword

(* An order goes to an address of the member who placed it, also when the  *)
(* form was filled in by a page of another member, or the cookie has       *)
(* changed since.                                                          *)
ShipsToOwnAddress == \A o \in placed : o.address.member = o.member

(* A request sent after its session was deleted, or has expired, does not  *)
(* act for a member: no ended session ever comes back.                     *)
EndedSessionsActForNobody ==
  \A r \in Request : late[r] => member[r] = NULL

(* The cookie lives as long as its session: what the browser lets go of by *)
(* itself is dead in the member service as well.                           *)
CookieOutlivesSession == jar # NULL => Left(jar) <= maxAge
=============================================================================
