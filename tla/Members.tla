------------------------------- MODULE Members -------------------------------
(***************************************************************************)
(* The member service: its tables members, sessions and addresses, and one *)
(* operator for each of its statements.  Members are never deleted; rows   *)
(* of expired sessions stay.  What a session row holds of time is what is  *)
(* left of it until expires_at.                                            *)
(***************************************************************************)
EXTENDS Integers

CONSTANTS
  Email, Password,
  Token,       \* raw session tokens; their hash, the primary key, stands for them
  City,        \* what an address says
  Legacy,      \* emails; a member from before passwords existed may have one
  MaxMember,   \* bound on members.id
  MaxAddress,  \* bound on addresses.id
  TTL,         \* sessionTTL and the Max-Age of its cookie, in clock ticks
  NoPassword,  \* the empty password_hash, which no password matches
  NULL

Member    == 1..MaxMember
AddressId == 1..MaxAddress
Session   == [member : Member, left : 0..TTL]
Address   == [member : Member, city : City]

ASSUME MembersAssumption ==
  /\ Legacy \subseteq Email
  /\ MaxMember \in Nat /\ MaxAddress \in Nat /\ TTL \in Nat \ {0}
  /\ NoPassword \notin Password
  /\ NULL \notin Email /\ NULL \notin Token /\ NULL \notin Session
  /\ NULL \notin Address /\ NULL \notin Member

VARIABLES
  email,       \* members.email, NULL without a row
  hash,        \* members.password_hash
  sessions,    \* the row of each token, NULL without one
  issued,      \* history: the tokens drawn so far; 32 random bytes never repeat
  ended,       \* history: the tokens whose session was deleted or has expired
  addresses,   \* the row of each address, NULL without one
  lastAddress  \* the last addresses.id given out

memberVars  == <<email, hash>>
sessionVars == <<sessions, issued, ended>>
addressVars == <<addresses, lastAddress>>

MembersTypeOK ==
  /\ email \in [Member -> Email \cup {NULL}]
  /\ hash \in [Member -> Password \cup {NoPassword}]
  /\ sessions \in [Token -> Session \cup {NULL}]
  /\ issued \subseteq Token /\ ended \subseteq Token
  /\ addresses \in [AddressId -> Address \cup {NULL}]
  /\ lastAddress \in 0..MaxAddress

MembersInit ==
  /\ \E e \in Legacy \cup {NULL} :
       email = [m \in Member |-> IF m = 1 THEN e ELSE NULL]
  /\ hash = [m \in Member |-> NoPassword]
  /\ sessions = [t \in Token |-> NULL]
  /\ issued = {} /\ ended = {}
  /\ addresses = [a \in AddressId |-> NULL]
  /\ lastAddress = 0

-----------------------------------------------------------------------------
(* The UNIQUE constraint on members.email.                                 *)
Taken(e) == \E m \in Member : email[m] = e

(* POST /members: the next id; 409 when the email is taken.                *)
CreateMember(m, e, p) ==
  /\ email[m] = NULL /\ \A n \in 1..m - 1 : email[n] # NULL
  /\ ~Taken(e)
  /\ email' = [email EXCEPT ![m] = e]
  /\ hash' = [hash EXCEPT ![m] = p]

(* PUT /members/{id}; 404 without a row, 409 when the email is taken.      *)
UpdateMember(m, e) ==
  /\ email[m] # NULL /\ ~Taken(e)
  /\ email' = [email EXCEPT ![m] = e]
  /\ UNCHANGED hash

\* BUG: an empty hash matches.
CredentialsOrNone(e, p) ==
  {m \in Member : email[m] = e /\ hash[m] \in {p, NoPassword}}

(* GetMemberByEmail and VerifyPassword: the member who may log in, if any. *)
Credentials(e, p) == {m \in Member : email[m] = e /\ hash[m] = p}

(* The INSERT of POST /sessions.                                           *)
CreateSession(t, m) ==
  /\ t \notin issued
  /\ issued' = issued \cup {t}
  /\ sessions' = [sessions EXCEPT ![t] = [member |-> m, left |-> TTL]]
  /\ UNCHANGED ended

(* DELETE /sessions/{id}, which succeeds for any id.                       *)
DeleteSession(t) ==
  /\ sessions' = [sessions EXCEPT ![t] = NULL]
  /\ ended' = ended \cup {t}
  /\ UNCHANGED issued

\* BUG: expires_at is not compared.
GetAnySession(t) ==
  {m \in Member : sessions[t] # NULL /\ sessions[t].member = m}

(* GET /sessions/{id}: whose live session this is.                         *)
GetSession(t) ==
  {m \in Member : sessions[t] # NULL /\ sessions[t].left > 0
                    /\ sessions[t].member = m}

Left(t) == IF sessions[t] = NULL THEN 0 ELSE sessions[t].left

(* The database clock moves on.                                            *)
Age ==
  /\ sessions' = [t \in Token |->
       IF Left(t) = 0 THEN sessions[t] ELSE [sessions[t] EXCEPT !.left = @ - 1]]
  /\ ended' = ended \cup {t \in Token : Left(t) = 1}
  /\ UNCHANGED issued

-----------------------------------------------------------------------------
\* BUG: only by id.
GetAnyAddress(m, a) == addresses[a] # NULL

(* The statements on addresses name the member with the id.                *)
GetAddress(m, a) == addresses[a] # NULL /\ addresses[a].member = m

ListAddresses(m) == {a \in AddressId : GetAddress(m, a)}

CreateAddress(m, city) ==
  /\ email[m] # NULL /\ lastAddress < MaxAddress
  /\ lastAddress' = lastAddress + 1
  /\ addresses' = [addresses EXCEPT ![lastAddress'] = [member |-> m, city |-> city]]

UpdateAddress(m, a, city) ==
  /\ GetAddress(m, a)
  /\ addresses' = [addresses EXCEPT ![a].city = city]
  /\ UNCHANGED lastAddress

DeleteAddress(m, a) ==
  /\ addresses' = [addresses EXCEPT ![a] = IF GetAddress(m, a) THEN NULL ELSE @]
  /\ UNCHANGED lastAddress
=============================================================================
