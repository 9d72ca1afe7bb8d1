---------------------------- MODULE UserSyncProofs ----------------------------
(***************************************************************************)
(* Theorems about UserSync, for any sets of deliveries and of requests and *)
(* any bounds: the types, and what a user's id keeps through the races of  *)
(* the webhooks and the first requests.                                    *)
(***************************************************************************)
EXTENDS UserSync, TLAPS

\* A request that looks for its user at Clerk does so for an account there was, and
\* has fetched one of its revisions.
RequestInv ==
  \A r \in Request :
    /\ rpc[r] # "new" => clerk # <<>>
    /\ rpc[r] = "fetched" => found[r].rev \in 1 .. MaxChanges + 1

\* Ids come from inserts, each announced; whoever holds a row holds an announced one.
IdInv ==
  /\ row # NoRow => row.id \in created
  /\ \A d \in Delivery : seen[d] # NoRow => seen[d].id \in created

\* Nobody is told of a deletion before it happens at Clerk.
DeletionInv ==
  ~gone => /\ \A h \in hooks : h.kind # "deleted"
           /\ \A d \in Delivery : hook[d].kind # "deleted"

UserInv ==
  TypeOK /\ RequestInv /\ IdInv /\ DeletionInv /\ RemovalIsAnnounced /\ ServedAsStored

LEMMA InitUserInv == Init => UserInv
<1> SUFFICES ASSUME Init PROVE UserInv
  OBVIOUS
<1>1. TypeOK
  <2>1. clerk \in Seq(BOOLEAN) /\ Len(clerk) <= MaxChanges + 1
    BY UserSyncAssumption DEF Init
  <2>2. /\ dpc \in [Delivery -> {"idle", "loaded"}]
        /\ hook \in [Delivery -> Hook \cup {NoHook}]
        /\ seen \in [Delivery -> Row \cup {NoRow}]
        /\ rpc \in [Request -> {"new", "unknown", "fetched", "served", "refused"}]
        /\ found \in [Request -> Row \cup {NoRow} \cup [id : {0}, rev : 1 .. MaxChanges + 1]]
    BY DEF Init
  <2>3. hooks \subseteq Hook /\ lost \in 0 .. MaxLost
    BY UserSyncAssumption DEF Init
  <2>4. row \in Row \cup {NoRow} /\ ids \in 0 .. MaxUsers
    BY UserSyncAssumption DEF Init
  <2>5. created \subseteq 1 .. MaxUsers /\ deleted \subseteq 1 .. MaxUsers
    BY DEF Init
  <2>6. gone \in BOOLEAN
    BY DEF Init
  <2>7. newest \in 0 .. MaxChanges + 1 /\ overtaken \in BOOLEAN
    <3>1. newest \in 0 .. MaxChanges + 1
      BY UserSyncAssumption DEF Init
    <3>2. overtaken \in BOOLEAN
      BY Zenon DEF Init
    <3>3. QED
      BY <3>1, <3>2
  <2>8. QED
    BY <2>1, <2>2, <2>3, <2>4, <2>5, <2>6, <2>7 DEF TypeOK
<1>2. RequestInv /\ DeletionInv
  BY DEF Init, RequestInv, DeletionInv, NoHook
<1>3. IdInv /\ RemovalIsAnnounced /\ ServedAsStored
  BY DEF Init, IdInv, RemovalIsAnnounced, ServedAsStored, NoRow
<1>4. QED
  BY <1>1, <1>2, <1>3 DEF UserInv

--------------------------------------------------------------------------------
(* The steps of Clerk and Svix leave the table alone. *)

LEMMA ClerkSteps ==
  ASSUME UserInv, SignUp \/ ChangeAccount \/ CloseAccount
  PROVE  UserInv'
<1>1. /\ UNCHANGED <<users, deliveries, requests, lost>>
      /\ clerk' \in Seq(BOOLEAN) /\ Len(clerk') <= MaxChanges + 1 /\ clerk' # <<>>
      /\ gone' \in BOOLEAN
      /\ \A h \in hooks' : h \in hooks \/ (h \in Hook /\ (~gone' => h.kind # "deleted"))
      /\ gone => gone'
  <2>1. CASE SignUp
    BY <2>1, UserSyncAssumption DEF SignUp, UserInv, TypeOK, Hook
  <2>2. CASE ChangeAccount
    <3>1. clerk \in Seq(BOOLEAN) /\ Len(clerk) \in Nat /\ Len(clerk) <= MaxChanges
      BY <2>2 DEF ChangeAccount, Rev, UserInv, TypeOK
    <3>2. PICK banned \in BOOLEAN : clerk' = Append(clerk, banned)
      BY <2>2 DEF ChangeAccount
    <3>3. clerk' \in Seq(BOOLEAN) /\ Len(clerk') = Len(clerk) + 1
      BY <3>1, <3>2
    <3>4. clerk' # <<>>
      BY <3>1, <3>3
    <3>5. [kind |-> "updated", rev |-> Rev + 1] \in Hook
      BY <3>1, UserSyncAssumption DEF Rev, Hook
    <3>6. QED
      BY <2>2, <3>1, <3>3, <3>4, <3>5, UserSyncAssumption DEF ChangeAccount, UserInv, TypeOK
  <2>3. CASE CloseAccount
    <3>1. clerk \in Seq(BOOLEAN) /\ Len(clerk) \in Nat /\ Len(clerk) > 0
      BY <2>3 DEF CloseAccount, Exists, UserInv, TypeOK
    <3>2. [kind |-> "deleted", rev |-> Rev] \in Hook
      BY <3>1, UserSyncAssumption DEF Rev, Hook, UserInv, TypeOK
    <3>3. QED
      BY <2>3, <3>1, <3>2 DEF CloseAccount, Exists, UserInv, TypeOK
  <2>4. QED
    BY <2>1, <2>2, <2>3
<1>2. TypeOK'
  BY <1>1 DEF UserInv, TypeOK, users, deliveries, requests
<1>3. RequestInv' /\ DeletionInv'
  BY <1>1 DEF UserInv, TypeOK, RequestInv, DeletionInv, deliveries, requests
<1>4. IdInv' /\ RemovalIsAnnounced' /\ ServedAsStored'
  BY <1>1 DEF UserInv, TypeOK, IdInv, RemovalIsAnnounced, ServedAsStored, users, deliveries, requests
<1>5. QED
  BY <1>2, <1>3, <1>4 DEF UserInv

--------------------------------------------------------------------------------
(* The steps of a webhook handler *)

\* What becomes of a delivery and of its webhook when it is answered.
LEMMA AnswerKeeps ==
  ASSUME UserInv, NEW d \in Delivery, Accept(d) \/ Reject(d)
  PROVE  /\ hooks' \subseteq hooks /\ lost' \in 0 .. MaxLost
         /\ dpc' \in [Delivery -> {"idle", "loaded"}]
         /\ hook' \in [Delivery -> Hook \cup {NoHook}]
         /\ seen' \in [Delivery -> Row \cup {NoRow}]
         /\ \A e \in Delivery : hook'[e] = NoHook \/ hook'[e] = hook[e]
         /\ \A e \in Delivery : seen'[e] = NoRow \/ seen'[e] = seen[e]
<1>1. Answered(d)
  BY DEF Accept, Reject
<1>2. /\ hooks' \subseteq hooks /\ lost' \in 0 .. MaxLost
  BY UserSyncAssumption DEF Accept, Reject, svix, UserInv, TypeOK
<1>3. /\ dpc' \in [Delivery -> {"idle", "loaded"}]
      /\ hook' \in [Delivery -> Hook \cup {NoHook}]
      /\ seen' \in [Delivery -> Row \cup {NoRow}]
  BY <1>1 DEF Answered, UserInv, TypeOK
<1>4. /\ \A e \in Delivery : hook'[e] = NoHook \/ hook'[e] = hook[e]
      /\ \A e \in Delivery : seen'[e] = NoRow \/ seen'[e] = seen[e]
  BY <1>1 DEF Answered, UserInv, TypeOK
<1>5. QED
  BY <1>2, <1>3, <1>4

\* What a step may do to the table, for the invariant and for IdentityIsStable.
TableStep ==
  /\ row' \in Row \cup {NoRow} /\ ids' \in 0 .. MaxUsers
  /\ newest' \in 0 .. MaxChanges + 1 /\ overtaken' \in BOOLEAN
  /\ created \subseteq created' /\ created' \subseteq 1 .. MaxUsers
  /\ deleted \subseteq deleted' /\ deleted' \subseteq 1 .. MaxUsers
  /\ row' # NoRow => row'.id \in created'
  /\ created' \ deleted' \subseteq {row'.id}
  /\ row # NoRow /\ ~gone => row'.id = row.id

LEMMA InsertTable ==
  ASSUME UserInv, NEW rev \in 1 .. MaxChanges + 1, InsertUser(rev)
  PROVE  TableStep /\ row' = [id |-> ids', rev |-> rev] /\ ids' \in created'
<1>1. ids' \in 1 .. MaxUsers
  BY UserSyncAssumption DEF InsertUser, UserInv, TypeOK
<1>2. /\ row' = [id |-> ids', rev |-> rev] /\ row' \in Row
      /\ newest' \in 0 .. MaxChanges + 1 /\ overtaken' \in BOOLEAN
  BY <1>1 DEF InsertUser, Write, Row, UserInv, TypeOK
<1>3. row = NoRow /\ created' = created \cup {ids'} /\ deleted' = deleted
  BY DEF InsertUser
<1>4. created' \ deleted' \subseteq {row'.id}
  BY <1>1, <1>2, <1>3 DEF UserInv, TypeOK, RemovalIsAnnounced, NoRow
<1>5. QED
  BY <1>1, <1>2, <1>3, <1>4, UserSyncAssumption DEF TableStep, UserInv, TypeOK

LEMMA SameTable ==
  ASSUME UserInv, UNCHANGED users
  PROVE  TableStep
BY DEF TableStep, users, UserInv, TypeOK, IdInv, RemovalIsAnnounced

LEMMA UpdateTable ==
  ASSUME UserInv, NEW d \in Delivery, UpdateUser(d)
  PROVE  TableStep
<1>1. hook[d] \in Hook /\ hook[d].rev \in 1 .. MaxChanges + 1
  BY DEF UpdateUser, UserInv, TypeOK, Hook, NoHook
<1>2. CASE UNCHANGED users
  BY <1>2, SameTable
<1>3. CASE Save(d)
  <2>1. /\ seen[d] # NoRow /\ row.id \in {0, seen[d].id}
        /\ row' = [id |-> seen[d].id, rev |-> hook[d].rev]
        /\ UNCHANGED <<ids, created, deleted>>
    BY <1>3 DEF Save, Write
  <2>2. newest' \in 0 .. MaxChanges + 1 /\ overtaken' \in BOOLEAN
    <3>1. newest' = IF hook[d].rev > newest THEN hook[d].rev ELSE newest
      BY <1>3 DEF Save, Write
    <3>2. overtaken' = (hook[d].rev < newest)
      BY <1>3 DEF Save
    <3>3. QED
      BY <1>1, <3>1, <3>2 DEF UserInv, TypeOK
  <2>3. seen[d] \in Row /\ seen[d].id \in created
    BY <2>1 DEF UserInv, TypeOK, IdInv
  <2>4. row' \in Row /\ row'.id = seen[d].id
    BY <1>1, <2>1, <2>3 DEF Row
  <2>5. row # NoRow => row.id = seen[d].id
    BY <2>1 DEF UserInv, TypeOK, Row, NoRow
  <2>6. created \ deleted \subseteq {row'.id}
    BY <2>1, <2>4 DEF UserInv, TypeOK, RemovalIsAnnounced
  <2>7. QED
    BY <2>1, <2>2, <2>3, <2>4, <2>5, <2>6 DEF TableStep, UserInv, TypeOK
<1>4. QED
  BY <1>2, <1>3 DEF UpdateUser

LEMMA DeleteTable ==
  ASSUME UserInv, NEW d \in Delivery, DeleteUser(d)
  PROVE  TableStep
<1>1. hook[d].kind = "deleted" /\ gone
  BY DEF DeleteUser, UserInv, DeletionInv
<1>2. CASE UNCHANGED users
  BY <1>2, SameTable
<1>3. CASE /\ seen[d] # NoRow
           /\ row' = IF row.id = seen[d].id THEN NoRow ELSE row
           /\ deleted' = deleted \cup {seen[d].id}
           /\ UNCHANGED <<newest, overtaken, ids, created>>
  <2>1. seen[d].id \in 1 .. MaxUsers
    BY <1>3 DEF UserInv, TypeOK, Row
  <2>2. row' \in Row \cup {NoRow}
    BY <1>3 DEF UserInv, TypeOK
  <2>3. row' # NoRow => row'.id \in created
    BY <1>3 DEF UserInv, IdInv
  <2>4. created' \ deleted' \subseteq {row'.id}
    BY <1>3 DEF UserInv, RemovalIsAnnounced
  <2>5. QED
    BY <1>1, <1>3, <2>1, <2>2, <2>3, <2>4 DEF TableStep, UserInv, TypeOK
<1>4. QED
  BY <1>2, <1>3 DEF DeleteUser

\* Whoever was served keeps an announced id, the one in the table while there is one.
LEMMA ServedKeeps ==
  ASSUME UserInv, TableStep, gone' = gone, UNCHANGED requests
  PROVE  ServedAsStored' /\ RemovalIsAnnounced'
<1>1. ASSUME NEW r \in Request, rpc[r] = "served", ~gone
      PROVE  found[r].id = row'.id
  <2>1. found[r].id \in created /\ found[r].id = row.id
    BY <1>1 DEF UserInv, ServedAsStored
  <2>2. row # NoRow
    BY <2>1 DEF UserInv, TypeOK, NoRow
  <2>3. QED
    BY <1>1, <2>1, <2>2 DEF TableStep
<1>2. QED
  BY <1>1 DEF UserInv, ServedAsStored, RemovalIsAnnounced, TableStep, requests

LEMMA ExecuteStep ==
  ASSUME UserInv, NEW d \in Delivery, Execute(d)
  PROVE  UserInv' /\ TableStep
<1>1. CASE Deliver(d)
  <2>1. PICK h \in hooks : hook' = [hook EXCEPT ![d] = h]
    BY <1>1 DEF Deliver
  <2>2. h \in Hook /\ (~gone => h.kind # "deleted")
    BY DEF UserInv, TypeOK, DeletionInv
  <2>3. TypeOK'
    BY <1>1, <2>1, <2>2 DEF Deliver, UserInv, TypeOK, account, svix, users, requests
  <2>4. RequestInv' /\ DeletionInv' /\ IdInv'
    BY <1>1, <2>1, <2>2 DEF Deliver, UserInv, TypeOK, RequestInv, DeletionInv, IdInv,
       account, svix, users, requests
  <2>5. TableStep
    BY <1>1, SameTable DEF Deliver
  <2>6. ServedAsStored' /\ RemovalIsAnnounced'
    BY <1>1, <2>5, ServedKeeps DEF Deliver, account
  <2>7. QED
    BY <2>3, <2>4, <2>5, <2>6 DEF UserInv
<1>2. CASE CreateUser(d) \/ UpdateUser(d) \/ DeleteUser(d) \/ HandlerFails(d)
  <2>1. UNCHANGED <<account, requests>> /\ (Accept(d) \/ Reject(d))
    BY <1>2 DEF CreateUser, UpdateUser, DeleteUser, HandlerFails
  <2>2. TableStep
    <3>1. CASE CreateUser(d)
      <4>1. hook[d].rev \in 1 .. MaxChanges + 1
        BY <3>1 DEF CreateUser, UserInv, TypeOK, Hook, NoHook
      <4>2. QED
        BY <3>1, <4>1, InsertTable, SameTable DEF CreateUser
    <3>2. CASE HandlerFails(d)
      BY <3>2, SameTable DEF HandlerFails
    <3>3. QED
      BY <1>2, <3>1, <3>2, UpdateTable, DeleteTable
  <2>3. TypeOK'
    BY <2>1, <2>2, AnswerKeeps DEF UserInv, TypeOK, TableStep, account, requests
  <2>4. RequestInv'
    BY <2>1 DEF UserInv, RequestInv, account, requests
  <2>5. DeletionInv'
    BY <2>1, AnswerKeeps DEF UserInv, DeletionInv, account, NoHook
  <2>6. IdInv'
    BY <2>1, <2>2, AnswerKeeps DEF UserInv, IdInv, TableStep
  <2>7. ServedAsStored' /\ RemovalIsAnnounced'
    BY <2>1, <2>2, ServedKeeps DEF account
  <2>8. QED
    BY <2>2, <2>3, <2>4, <2>5, <2>6, <2>7 DEF UserInv
<1>3. QED
  BY <1>1, <1>2 DEF Execute

--------------------------------------------------------------------------------
(* The steps of a request *)

LEMMA ProtectedStep ==
  ASSUME UserInv, NEW r \in Request, Protected(r)
  PROVE  UserInv' /\ TableStep
<1>1. UNCHANGED <<account, svix, deliveries>>
  BY DEF Protected, Authenticate, FetchUser, CreateRequester, RequestFails
<1>2. TableStep
  <2>1. CASE CreateRequester(r)
    <3>1. found[r].rev \in 1 .. MaxChanges + 1
      BY <2>1 DEF CreateRequester, UserInv, RequestInv
    <3>2. QED
      BY <2>1, <3>1, InsertTable, SameTable DEF CreateRequester
  <2>2. CASE ~CreateRequester(r)
    BY <2>2, SameTable DEF Protected, Authenticate, FetchUser, RequestFails
  <2>3. QED
    BY <2>1, <2>2
<1>3. /\ rpc' \in [Request -> {"new", "unknown", "fetched", "served", "refused"}]
      /\ found' \in [Request -> Row \cup {NoRow} \cup [id : {0}, rev : 1 .. MaxChanges + 1]]
      /\ \A q \in Request \ {r} : rpc'[q] = rpc[q] /\ found'[q] = found[q]
      /\ rpc'[r] # "new" => clerk # <<>>
      /\ rpc'[r] = "fetched" => found'[r].rev \in 1 .. MaxChanges + 1
      /\ rpc'[r] = "served" => found'[r].id = row'.id /\ row' # NoRow
  <2>1. CASE Authenticate(r)
    <3>1. Answer(row) \in {"served", "refused"}
      BY DEF Answer
    <3>2. QED
      BY <2>1, <3>1 DEF Authenticate, users, UserInv, TypeOK
  <2>2. CASE FetchUser(r)
    <3>1. clerk # <<>> /\ Rev \in 1 .. MaxChanges + 1
      <4>1. clerk # <<>>
        BY <2>2 DEF FetchUser, UserInv, RequestInv
      <4>2. clerk \in Seq(BOOLEAN) /\ Len(clerk) <= MaxChanges + 1
        BY DEF UserInv, TypeOK
      <4>3. QED
        BY <4>1, <4>2, UserSyncAssumption DEF Rev
    <3>2. [id |-> 0, rev |-> Rev] \in [id : {0}, rev : 1 .. MaxChanges + 1]
      BY <3>1
    <3>3. PICK rec \in [id : {0}, rev : 1 .. MaxChanges + 1] :
            \/ rpc' = [rpc EXCEPT ![r] = "fetched"] /\ found' = [found EXCEPT ![r] = rec]
            \/ rpc' = [rpc EXCEPT ![r] = "refused"] /\ UNCHANGED found
      BY <2>2, <3>2 DEF FetchUser
    <3>4. rec.rev \in 1 .. MaxChanges + 1
      OBVIOUS
    <3>5. /\ rpc \in [Request -> {"new", "unknown", "fetched", "served", "refused"}]
          /\ found \in [Request -> Row \cup {NoRow} \cup [id : {0}, rev : 1 .. MaxChanges + 1]]
      BY DEF UserInv, TypeOK
    <3>6. QED
      BY <3>1, <3>3, <3>4, <3>5
  <2>3. CASE CreateRequester(r)
    <3>1. clerk # <<>> /\ found[r].rev \in 1 .. MaxChanges + 1
      BY <2>3 DEF CreateRequester, UserInv, RequestInv
    <3>2. Answer(found[r]) \in {"served", "refused"}
      BY DEF Answer
    <3>3. CASE InsertUser(found[r].rev)
      <4>1. row' \in Row
        BY <3>1, <3>3, UserSyncAssumption DEF InsertUser, Write, Row, UserInv, TypeOK
      <4>2. row' # NoRow
        BY <4>1 DEF Row, NoRow
      <4>3. row # row'
        BY <3>3, <4>2 DEF InsertUser
      <4>4. found' = [found EXCEPT ![r] = row'] /\ rpc' = [rpc EXCEPT ![r] = Answer(found[r])]
        BY <2>3, <3>3 DEF CreateRequester, InsertUser
      <4>5. QED
        BY <3>1, <3>2, <4>1, <4>2, <4>4 DEF UserInv, TypeOK
    <3>4. CASE rpc' = [rpc EXCEPT ![r] = "refused"] /\ UNCHANGED <<users, found>>
      BY <3>1, <3>4 DEF UserInv, TypeOK
    <3>5. QED
      BY <2>3, <3>3, <3>4 DEF CreateRequester
  <2>4. CASE RequestFails(r)
    BY <2>4 DEF RequestFails, UserInv, TypeOK, users
  <2>5. QED
    BY <2>1, <2>2, <2>3, <2>4 DEF Protected
<1>4. TypeOK'
  BY <1>1, <1>2, <1>3 DEF UserInv, TypeOK, TableStep, account, svix, deliveries
<1>5. RequestInv'
  BY <1>1, <1>3 DEF UserInv, RequestInv, account
<1>6. DeletionInv' /\ IdInv' /\ RemovalIsAnnounced'
  BY <1>1, <1>2 DEF UserInv, DeletionInv, IdInv, RemovalIsAnnounced, TableStep,
     account, svix, deliveries
<1>7. ServedAsStored'
  <2>1. ASSUME NEW q \in Request, rpc'[q] = "served"
        PROVE  found'[q].id \in created' /\ (~gone' => found'[q].id = row'.id)
    <3>1. CASE q = r
      BY <1>2, <1>3, <2>1, <3>1 DEF TableStep
    <3>2. CASE q # r
      <4>1. found[q].id \in created /\ (~gone => found[q].id = row.id)
        BY <1>3, <2>1, <3>2 DEF UserInv, ServedAsStored
      <4>2. row = NoRow => found[q].id # row.id
        BY <4>1 DEF UserInv, TypeOK, NoRow
      <4>3. QED
        BY <1>1, <1>2, <1>3, <3>2, <4>1, <4>2 DEF TableStep, account
    <3>3. QED
      BY <3>1, <3>2
  <2>2. QED
    BY <2>1 DEF ServedAsStored
<1>8. QED
  BY <1>2, <1>4, <1>5, <1>6, <1>7 DEF UserInv

--------------------------------------------------------------------------------
LEMMA UserInvStep ==
  ASSUME UserInv, [Next]_vars
  PROVE  UserInv' /\ (row # NoRow /\ ~gone => row'.id = row.id)
<1>1. CASE SignUp \/ ChangeAccount \/ CloseAccount
  <2>1. row' = row
    BY <1>1 DEF SignUp, ChangeAccount, CloseAccount, users
  <2>2. QED
    BY <1>1, <2>1, ClerkSteps
<1>2. CASE \E d \in Delivery : Execute(d)
  BY <1>2, ExecuteStep DEF TableStep
<1>3. CASE \E r \in Request : Protected(r)
  BY <1>3, ProtectedStep DEF TableStep
<1>4. CASE UNCHANGED vars
  BY <1>4 DEF vars, account, svix, users, deliveries, requests, UserInv, TypeOK, RequestInv,
     IdInv, DeletionInv, RemovalIsAnnounced, ServedAsStored
<1>5. QED
  BY <1>1, <1>2, <1>3, <1>4 DEF Next

\* UserInv is inductive: it holds after any steps of the webhooks and the requests.
THEOREM UserInvTheorem == Spec => []UserInv
<1>1. UserInv /\ [Next]_vars => UserInv'
  BY UserInvStep
<1>2. QED
  BY InitUserInv, <1>1, PTL DEF Spec

\* The table, the webhooks and the handlers keep their types, whatever the order in
\* which UserWebhookHandler and AuthenticateMiddleware write.
THEOREM UserTypeCorrect == Spec => []TypeOK
<1>1. UserInv => TypeOK
  BY DEF UserInv
<1>2. QED
  BY UserInvTheorem, <1>1, PTL

\* A user whose creation was announced is in the table, or its deletion was announced:
\* Save, Create and Delete each come with their event.
THEOREM RemovalIsAnnouncedTheorem == Spec => []RemovalIsAnnounced
<1>1. UserInv => RemovalIsAnnounced
  BY DEF UserInv
<1>2. QED
  BY UserInvTheorem, <1>1, PTL

\* No request is served as a user that was never stored, or as another than the one
\* in the table of an account that exists.
THEOREM ServedAsStoredTheorem == Spec => []ServedAsStored
<1>1. UserInv => ServedAsStored
  BY DEF UserInv
<1>2. QED
  BY UserInvTheorem, <1>1, PTL

\* Until the account is closed, no webhook and no request changes the id of its user.
THEOREM IdentityIsStableTheorem == Spec => IdentityIsStable
<1>1. UserInv /\ [Next]_vars => [row # NoRow /\ ~gone => row'.id = row.id]_vars
  BY UserInvStep
<1>2. QED
  BY UserInvTheorem, <1>1, PTL DEF Spec, IdentityIsStable

--------------------------------------------------------------------------------
(* The last revision reaches the row.  The webhook of the last update stays  *)
(* with Svix until a handler has saved that revision; what the row holds     *)
(* since is that revision, or that of an older update saved after it.        *)

\* The webhook of the last update is still to come, or that of the creation.
LastPending == [kind |-> "updated", rev |-> Rev] \in hooks
CreationPending == \E h \in hooks : h.kind = "created"

\* What has been read at Clerk or sent by it is a revision there was.
CreatedFirst == \A h \in hooks \cup {hook[d] : d \in Delivery} : h.kind = "created" => h.rev = 1
SentInv == \A h \in hooks \cup {hook[d] : d \in Delivery} : h.rev <= Rev
FetchedInv == \A r \in Request : rpc[r] = "fetched" => found[r].rev \in 1 .. Rev

\* Nothing is known of an account before there is one.
BeforeSignUp ==
  clerk = <<>> => row = NoRow /\ newest = 0 /\ hooks = {} /\ \A d \in Delivery : hook[d] = NoHook

\* The row a handler has loaded is still there.
SeenInv == \A d \in Delivery : seen[d] # NoRow => row # NoRow /\ row.id = seen[d].id

\* What the row holds is the newest revision it ever held, but for an update that was
\* saved too late.
HeldInv ==
  /\ newest <= Rev
  /\ row = NoRow => newest = 0
  /\ row # NoRow => newest >= 1 /\ (row.rev = newest \/ overtaken)

\* A row that has never held the last revision has a webhook to come.
RowInv ==
  \/ newest = Rev
  \/ LastPending
  \/ newest = 0 /\ Rev = 1 /\ CreationPending

SyncInv ==
  /\ CreatedFirst /\ SentInv /\ BeforeSignUp
  /\ ~gone => FetchedInv /\ SeenInv
  /\ Exists => HeldInv /\ RowInv

LEMMA InitSyncInv == Init => SyncInv
<1> SUFFICES ASSUME Init PROVE SyncInv
  OBVIOUS
<1>1. CreatedFirst /\ BeforeSignUp /\ FetchedInv /\ SeenInv /\ ~Exists
  BY DEF Init, CreatedFirst, BeforeSignUp, FetchedInv, SeenInv, NoHook, Exists
<1>2. SentInv
  <2>1. Rev = 0
    BY DEF Init, Rev
  <2>2. QED
    BY <2>1 DEF Init, SentInv, NoHook
<1>3. QED
  BY <1>1, <1>2 DEF SyncInv

\* Svix forgets at most the webhook that was answered, and answers add none.
LEMMA AnswerHooks ==
  ASSUME UserInv, NEW d \in Delivery, Accept(d) \/ Reject(d)
  PROVE  /\ hooks' \in {hooks, hooks \ {hook[d]}}
         /\ hooks' \cup {hook'[e] : e \in Delivery}
              \subseteq hooks \cup {hook[e] : e \in Delivery} \cup {NoHook}
<1>1. hooks' \in {hooks, hooks \ {hook[d]}}
  BY DEF Accept, Reject, svix
<1>2. \A e \in Delivery : hook'[e] = NoHook \/ hook'[e] = hook[e]
  BY AnswerKeeps
<1>3. QED
  BY <1>1, <1>2

\* What a handler writes: a row inserted before the account is closed is the first, and
\* a saved update is the newest, or overtaken.
LEMMA InsertHeld ==
  ASSUME UserInv, SyncInv, Exists, NEW rev \in 1 .. Rev, InsertUser(rev)
  PROVE  row = NoRow /\ newest = 0 /\ newest' = rev /\ row' # NoRow /\ row'.rev = rev
<1>1. row = NoRow /\ newest = 0
  BY DEF InsertUser, SyncInv, HeldInv
<1>2. Rev \in Nat /\ rev > 0 /\ rev # 0
  BY DEF UserInv, TypeOK, Rev
<1>3. row' = [id |-> ids', rev |-> rev] /\ newest' = IF rev > newest THEN rev ELSE newest
  BY DEF InsertUser, Write
<1>4. QED
  BY <1>1, <1>2, <1>3 DEF NoRow

\* The handlers of a webhook, after it has been loaded.
LEMMA HandlerSync ==
  ASSUME UserInv, SyncInv, NEW d \in Delivery,
         CreateUser(d) \/ UpdateUser(d) \/ DeleteUser(d) \/ HandlerFails(d)
  PROVE  SyncInv'
<1>1. UNCHANGED <<clerk, gone, rpc, found>> /\ (Accept(d) \/ Reject(d))
  BY DEF CreateUser, UpdateUser, DeleteUser, HandlerFails, account, requests
<1>2. CreatedFirst' /\ SentInv' /\ BeforeSignUp'
  <2>1. CreatedFirst'
    BY <1>1, AnswerHooks DEF SyncInv, CreatedFirst, NoHook
  <2>2. SentInv'
    <3>1. Rev' = Rev /\ Rev \in Nat /\ NoHook.rev = 0
      BY <1>1 DEF UserInv, TypeOK, Rev, NoHook
    <3>2. QED
      BY <1>1, <3>1, AnswerHooks DEF SyncInv, SentInv
  <2>3. ASSUME clerk = <<>> PROVE BeforeSignUp'
    <3>1. row = NoRow /\ newest = 0 /\ hooks = {} /\ \A e \in Delivery : hook[e] = NoHook
      BY <2>3 DEF SyncInv, BeforeSignUp
    <3>2. HandlerFails(d)
      BY <3>1 DEF CreateUser, UpdateUser, DeleteUser, NoHook
    <3>3. hooks' = {} /\ row' = NoRow /\ newest' = 0
      BY <3>1, <3>2 DEF HandlerFails, Reject, svix, users
    <3>4. \A e \in Delivery : hook'[e] = NoHook
      BY <1>1, <3>1, AnswerKeeps
    <3>5. QED
      BY <3>3, <3>4 DEF BeforeSignUp
  <2>4. QED
    BY <1>1, <2>1, <2>2, <2>3 DEF BeforeSignUp
<1>3. ASSUME ~gone PROVE FetchedInv'
  BY <1>1, <1>3 DEF SyncInv, FetchedInv, Rev
<1>4. ASSUME ~gone PROVE SeenInv'
  <2>1. SUFFICES ASSUME NEW e \in Delivery, seen'[e] # NoRow
                 PROVE  row' # NoRow /\ row'.id = seen'[e].id
    BY DEF SeenInv
  <2>2. seen'[e] = seen[e]
    BY <1>1, <2>1, AnswerKeeps
  <2>3. row # NoRow /\ row.id = seen[e].id /\ row.id # 0
    BY <1>4, <2>1, <2>2 DEF SyncInv, SeenInv, UserInv, TypeOK, Row
  <2>4. row'.id = row.id
    BY <1>4, <2>3, ExecuteStep DEF TableStep, Execute
  <2>5. QED
    BY <2>2, <2>3, <2>4 DEF NoRow
<1>5. ASSUME Exists PROVE HeldInv' /\ RowInv'
  <2>1. HeldInv /\ RowInv /\ ~gone /\ Rev' = Rev
    BY <1>1, <1>5 DEF SyncInv, Exists, Rev
  <2>2. Rev \in Nat /\ Rev >= 1 /\ newest \in Nat
    <3>1. clerk \in Seq(BOOLEAN) /\ clerk # <<>>
      BY <1>5 DEF UserInv, TypeOK, Exists
    <3>2. QED
      BY <3>1 DEF UserInv, TypeOK, Rev
  <2>3. hook[d].kind # "deleted"
    BY <2>1 DEF UserInv, DeletionInv
  <2>4. hook[d] # [kind |-> "updated", rev |-> Rev] => (LastPending => LastPending')
    BY <1>1, <2>1, AnswerHooks DEF LastPending
  <2>5. ASSUME UNCHANGED users, row # NoRow,
               hook[d] # [kind |-> "updated", rev |-> Rev] \/ hooks' = hooks
        PROVE  HeldInv' /\ RowInv'
    <3>1. newest' = newest /\ row' = row /\ overtaken' = overtaken
      BY <2>5 DEF users
    <3>2. newest >= 1
      BY <2>1, <2>5 DEF HeldInv
    <3>3. LastPending => LastPending'
      BY <2>1, <2>4, <2>5 DEF LastPending
    <3>4. newest = Rev \/ LastPending
      BY <2>1, <2>2, <3>2 DEF RowInv
    <3>5. QED
      BY <2>1, <3>1, <3>3, <3>4 DEF HeldInv, RowInv
  <2>6. ASSUME UNCHANGED <<users, svix>> PROVE HeldInv' /\ RowInv'
    BY <2>1, <2>6 DEF HeldInv, RowInv, LastPending, CreationPending, users, svix
  <2>7. CASE CreateUser(d)
    <3>1. hook[d] # [kind |-> "updated", rev |-> Rev]
      BY <2>7 DEF CreateUser
    <3>2. CASE seen[d] # NoRow /\ UNCHANGED users
      <4>1. row # NoRow
        BY <2>1, <3>2 DEF SyncInv, SeenInv
      <4>2. QED
        BY <2>5, <3>1, <3>2, <4>1
    <3>3. CASE InsertUser(hook[d].rev)
      <4>1. hook[d].rev = 1
        BY <2>7 DEF CreateUser, SyncInv, CreatedFirst
      <4>2. newest = 0 /\ newest' = 1 /\ row' # NoRow /\ row'.rev = 1
        BY <1>5, <2>2, <3>3, <4>1, InsertHeld
      <4>3. newest' = Rev \/ LastPending'
        BY <2>1, <2>2, <2>4, <3>1, <4>2 DEF RowInv
      <4>4. QED
        BY <2>1, <2>2, <4>2, <4>3 DEF HeldInv, RowInv
    <3>4. CASE row # NoRow /\ UNCHANGED users
      BY <2>5, <3>1, <3>4
    <3>5. QED
      BY <2>7, <3>2, <3>3, <3>4 DEF CreateUser
  <2>8. CASE UpdateUser(d)
    <3>1. CASE Reject(d) /\ UNCHANGED users
      BY <2>6, <3>1 DEF Reject
    <3>2. CASE Save(d)
      <4>1. /\ hook[d].kind = "updated" /\ hook[d] \in Hook
            /\ hook[d].rev \in Nat /\ hook[d].rev <= Rev /\ hook[d].rev >= 1
        <5>1. hook[d] \in Hook
          BY <2>8 DEF UpdateUser, UserInv, TypeOK, NoHook
        <5>2. hook[d].rev \in 1 .. MaxChanges + 1
          BY <5>1 DEF Hook
        <5>3. QED
          BY <2>8, <5>1, <5>2, UserSyncAssumption DEF UpdateUser, SyncInv, SentInv
      <4>2. /\ seen[d] # NoRow
            /\ row' = [id |-> seen[d].id, rev |-> hook[d].rev]
            /\ newest' = IF hook[d].rev > newest THEN hook[d].rev ELSE newest
            /\ overtaken' = (hook[d].rev < newest)
        BY <3>2 DEF Save, Write
      <4>3. row # NoRow /\ newest >= 1
        BY <2>1, <4>2 DEF SyncInv, SeenInv, HeldInv
      <4>4. row' # NoRow /\ row'.rev = hook[d].rev
        BY <4>1, <4>2 DEF NoRow
      <4>5. newest' <= Rev /\ newest' >= 1 /\ (row'.rev = newest' \/ overtaken')
        <5>1. newest' <= Rev /\ newest' >= 1
          BY <2>1, <2>2, <4>1, <4>2, <4>3 DEF HeldInv
        <5>2. CASE hook[d].rev < newest
          BY <4>2, <5>1, <5>2
        <5>3. CASE ~(hook[d].rev < newest)
          BY <2>2, <4>1, <4>2, <4>4, <5>1, <5>3
        <5>4. QED
          BY <5>1, <5>2, <5>3
      <4>6. HeldInv'
        BY <2>1, <4>4, <4>5 DEF HeldInv
      <4>7. CASE hook[d].rev = Rev
        <5>1. newest' = Rev
          BY <2>1, <2>2, <4>2, <4>7 DEF HeldInv
        <5>2. QED
          BY <2>1, <4>6, <5>1 DEF RowInv
      <4>8. CASE hook[d].rev # Rev
        <5>1. hook[d] # [kind |-> "updated", rev |-> Rev]
          BY <4>8
        <5>2. newest = Rev \/ LastPending
          BY <2>1, <2>2, <4>3 DEF RowInv
        <5>3. newest = Rev => newest' = Rev
          BY <2>2, <4>1, <4>2
        <5>4. QED
          BY <2>1, <2>4, <4>6, <5>1, <5>2, <5>3 DEF RowInv
      <4>9. QED
        BY <4>7, <4>8
    <3>3. QED
      BY <2>8, <3>1, <3>2 DEF UpdateUser
  <2>9. CASE HandlerFails(d)
    BY <2>6, <2>9 DEF HandlerFails, Reject
  <2>10. QED
    BY <2>3, <2>7, <2>8, <2>9 DEF DeleteUser
<1>6. gone' = gone /\ (Exists' <=> Exists)
  BY <1>1 DEF Exists
<1>7. QED
  BY <1>2, <1>3, <1>4, <1>5, <1>6 DEF SyncInv

LEMMA DeliverSync ==
  ASSUME UserInv, SyncInv, NEW d \in Delivery, Deliver(d)
  PROVE  SyncInv'
<1>1. PICK h \in hooks : hook' = [hook EXCEPT ![d] = h]
  BY DEF Deliver
<1>2. /\ UNCHANGED <<clerk, gone, hooks, row, newest, overtaken, rpc, found>>
      /\ seen' = [seen EXCEPT ![d] = row]
  BY DEF Deliver, account, svix, users, requests
<1>3. /\ hooks' \cup {hook'[e] : e \in Delivery} \subseteq hooks \cup {hook[e] : e \in Delivery}
  BY <1>1, <1>2 DEF UserInv, TypeOK
<1>4. CreatedFirst' /\ SentInv' /\ BeforeSignUp'
  BY <1>2, <1>3 DEF SyncInv, CreatedFirst, SentInv, BeforeSignUp, Rev
<1>5. ~gone => FetchedInv' /\ SeenInv'
  BY <1>2 DEF SyncInv, FetchedInv, SeenInv, Rev, UserInv, TypeOK
<1>6. Exists' => HeldInv' /\ RowInv'
  BY <1>2 DEF SyncInv, Exists, HeldInv, RowInv, Rev, LastPending, CreationPending
<1>7. QED
  BY <1>2, <1>4, <1>5, <1>6 DEF SyncInv

LEMMA ProtectedSync ==
  ASSUME UserInv, SyncInv, NEW r \in Request, Protected(r)
  PROVE  SyncInv'
<1>1. UNCHANGED <<clerk, gone, hooks, lost, dpc, hook, seen>>
  BY DEF Protected, Authenticate, FetchUser, CreateRequester, RequestFails, account, svix, deliveries
<1>2. CreatedFirst' /\ SentInv' /\ BeforeSignUp'
  <2>1. ASSUME clerk = <<>> PROVE row' = row /\ newest' = newest
    <3>1. rpc[r] = "new"
      BY <2>1 DEF UserInv, RequestInv
    <3>2. QED
      BY <2>1, <3>1 DEF Protected, Authenticate, FetchUser, CreateRequester, RequestFails, users
  <2>2. QED
    BY <1>1, <2>1 DEF SyncInv, CreatedFirst, SentInv, BeforeSignUp, Rev
<1>3. ASSUME ~gone PROVE FetchedInv'
  <2>1. SUFFICES ASSUME NEW q \in Request, rpc'[q] = "fetched"
                 PROVE  found'[q].rev \in 1 .. Rev
    BY <1>1 DEF FetchedInv, Rev
  <2>2. CASE q = r /\ FetchUser(r)
    <3>1. found'[r].rev = Rev
      BY <2>1, <2>2 DEF FetchUser, UserInv, TypeOK
    <3>2. clerk # <<>> /\ clerk \in Seq(BOOLEAN)
      BY <2>2 DEF FetchUser, UserInv, TypeOK, RequestInv
    <3>3. Rev \in Nat \ {0}
      BY <3>2 DEF Rev
    <3>4. QED
      BY <2>2, <3>1, <3>3
  <2>3. CASE q # r
    BY <1>3, <2>1, <2>3 DEF Protected, Authenticate, FetchUser, CreateRequester, RequestFails,
       SyncInv, FetchedInv, UserInv, TypeOK
  <2>4. CASE q = r /\ ~FetchUser(r)
    <3>1. rpc'[r] # "fetched"
      BY <2>4 DEF Protected, Authenticate, CreateRequester, RequestFails, Answer, UserInv, TypeOK
    <3>2. QED
      BY <2>1, <2>4, <3>1
  <2>5. QED
    BY <2>2, <2>3, <2>4
<1>4. ASSUME ~gone PROVE SeenInv'
  <2>1. row # NoRow => row'.id = row.id
    BY <1>4, ProtectedStep DEF TableStep
  <2>2. row # NoRow => row.id # 0
    BY DEF UserInv, TypeOK, Row
  <2>3. QED
    BY <1>1, <1>4, <2>1, <2>2 DEF SyncInv, SeenInv, NoRow
<1>5. ASSUME Exists PROVE HeldInv' /\ RowInv'
  <2>1. HeldInv /\ RowInv /\ ~gone /\ Rev' = Rev
    BY <1>1, <1>5 DEF SyncInv, Exists, Rev
  <2>2. (LastPending' <=> LastPending) /\ (CreationPending' <=> CreationPending)
    BY <1>1, <2>1 DEF LastPending, CreationPending
  <2>3. CASE UNCHANGED users
    BY <2>1, <2>2, <2>3 DEF HeldInv, RowInv, users
  <2>4. CASE CreateRequester(r) /\ InsertUser(found[r].rev)
    <3>1. found[r].rev \in 1 .. Rev
      BY <2>1, <2>4 DEF CreateRequester, SyncInv, FetchedInv
    <3>2. Rev \in Nat
      BY DEF UserInv, TypeOK, Rev
    <3>3. /\ newest = 0 /\ newest' = found[r].rev
          /\ row' # NoRow /\ row'.rev = found[r].rev
      BY <1>5, <2>4, <3>1, InsertHeld
    <3>4. HeldInv'
      BY <2>1, <3>1, <3>2, <3>3 DEF HeldInv
    <3>5. newest = Rev => newest' = Rev
      BY <3>1, <3>2, <3>3
    <3>6. Rev = 1 => newest' = Rev
      BY <3>1, <3>2, <3>3
    <3>7. QED
      BY <2>1, <2>2, <3>4, <3>5, <3>6 DEF RowInv
  <2>5. QED
    BY <2>3, <2>4 DEF Protected, Authenticate, FetchUser, CreateRequester, RequestFails
<1>6. QED
  BY <1>1, <1>2, <1>3, <1>4, <1>5 DEF SyncInv, Exists

\* Clerk: a change comes with its webhook, whatever is still under way.
LEMMA ClerkSync ==
  ASSUME UserInv, SyncInv, SignUp \/ ChangeAccount \/ CloseAccount
  PROVE  SyncInv'
<1>1. CASE SignUp
  <2>1. clerk = <<>> /\ clerk' = <<FALSE>> /\ hooks' = {[kind |-> "created", rev |-> 1]}
    BY <1>1 DEF SignUp
  <2>2. UNCHANGED <<gone, row, newest, overtaken, hook, seen, rpc, found>>
    BY <1>1 DEF SignUp, users, deliveries, requests
  <2>3. row = NoRow /\ newest = 0 /\ hooks = {} /\ \A d \in Delivery : hook[d] = NoHook
    BY <2>1 DEF SyncInv, BeforeSignUp
  <2>4. Rev' = 1
    BY <2>1 DEF Rev
  <2>5. CreatedFirst' /\ BeforeSignUp'
    BY <2>1, <2>2, <2>3 DEF CreatedFirst, BeforeSignUp, NoHook
  <2>6. SentInv'
    <3>1. ASSUME NEW h \in hooks' \cup {hook'[d] : d \in Delivery}
          PROVE  h.rev \in {0, 1}
      BY <2>1, <2>2, <2>3 DEF NoHook
    <3>2. QED
      BY <2>4, <3>1 DEF SentInv
  <2>7. ASSUME ~gone PROVE FetchedInv' /\ SeenInv'
    BY <2>1, <2>2, <2>7 DEF SyncInv, FetchedInv, SeenInv, UserInv, RequestInv
  <2>8. HeldInv' /\ RowInv'
    <3>1. CreationPending'
      BY <2>1 DEF CreationPending
    <3>2. QED
      BY <2>2, <2>3, <2>4, <3>1 DEF HeldInv, RowInv
  <2>9. QED
    BY <2>2, <2>5, <2>6, <2>7, <2>8 DEF SyncInv
<1>2. CASE ChangeAccount
  <2>1. PICK banned \in BOOLEAN : clerk' = Append(clerk, banned)
    BY <1>2 DEF ChangeAccount
  <2>2. Rev \in Nat /\ Rev' = Rev + 1
    BY <2>1 DEF UserInv, TypeOK, Rev
  <2>3. /\ hooks' = hooks \cup {[kind |-> "updated", rev |-> Rev + 1]}
        /\ UNCHANGED <<gone, row, newest, overtaken, hook, seen, rpc, found>>
    BY <1>2 DEF ChangeAccount, users, deliveries, requests
  <2>4. CreatedFirst' /\ BeforeSignUp'
    <3>1. clerk # <<>> /\ clerk \in Seq(BOOLEAN)
      BY <1>2 DEF ChangeAccount, Exists, UserInv, TypeOK
    <3>2. clerk' # <<>>
      BY <2>1, <3>1
    <3>3. QED
      BY <2>3, <3>2 DEF SyncInv, CreatedFirst, BeforeSignUp
  <2>5. SentInv'
    <3>1. \A h \in hooks \cup {hook[d] : d \in Delivery} : h.rev \in Nat /\ h.rev <= Rev
      <4>1. \A h \in hooks \cup {hook[d] : d \in Delivery} : h \in Hook \cup {NoHook}
        BY DEF UserInv, TypeOK
      <4>2. \A h \in Hook \cup {NoHook} : h.rev \in Nat
        BY UserSyncAssumption DEF Hook, NoHook
      <4>3. QED
        BY <4>1, <4>2 DEF SyncInv, SentInv
    <3>2. ASSUME NEW h \in hooks' \cup {hook'[d] : d \in Delivery} PROVE h.rev <= Rev + 1
      <4>1. h = [kind |-> "updated", rev |-> Rev + 1] \/ h \in hooks \cup {hook[d] : d \in Delivery}
        BY <2>3
      <4>2. QED
        BY <2>2, <3>1, <4>1
    <3>3. QED
      BY <2>2, <3>2 DEF SentInv
  <2>6. ~gone => FetchedInv' /\ SeenInv'
    BY <2>2, <2>3 DEF SyncInv, FetchedInv, SeenInv
  <2>7. HeldInv'
    <3>1. HeldInv /\ newest \in Nat
      BY <1>2 DEF ChangeAccount, SyncInv, UserInv, TypeOK
    <3>2. QED
      BY <2>2, <2>3, <3>1 DEF HeldInv
  <2>8. RowInv'
    <3>1. LastPending'
      BY <2>2, <2>3 DEF LastPending
    <3>2. QED
      BY <3>1 DEF RowInv
  <2>9. QED
    BY <2>3, <2>4, <2>5, <2>6, <2>7, <2>8 DEF SyncInv
<1>3. CASE CloseAccount
  <2>1. gone' /\ hook' = hook /\ hooks' = hooks \cup {[kind |-> "deleted", rev |-> Rev]}
    BY <1>3 DEF CloseAccount, deliveries
  <2>2. clerk' = clerk /\ clerk # <<>> /\ Rev' = Rev /\ Rev \in Nat
    BY <1>3 DEF CloseAccount, Exists, Rev, UserInv, TypeOK
  <2>3. CreatedFirst' /\ BeforeSignUp' /\ ~Exists'
    BY <2>1, <2>2 DEF SyncInv, CreatedFirst, BeforeSignUp, Exists
  <2>4. SentInv'
    <3>1. ASSUME NEW h \in hooks' \cup {hook'[d] : d \in Delivery} PROVE h.rev <= Rev
      <4>1. h = [kind |-> "deleted", rev |-> Rev] \/ h \in hooks \cup {hook[d] : d \in Delivery}
        BY <2>1
      <4>2. QED
        BY <2>2, <4>1 DEF SyncInv, SentInv
    <3>2. QED
      BY <2>2, <3>1 DEF SentInv
  <2>5. QED
    BY <2>1, <2>3, <2>4 DEF SyncInv
<1>4. QED
  BY <1>1, <1>2, <1>3

LEMMA SyncInvStep ==
  ASSUME UserInv, SyncInv, [Next]_vars
  PROVE  SyncInv'
<1>1. CASE UNCHANGED vars
  BY <1>1 DEF vars, account, svix, users, deliveries, requests, SyncInv, CreatedFirst, SentInv,
     BeforeSignUp, FetchedInv, SeenInv, HeldInv, RowInv, LastPending, CreationPending, Exists, Rev
<1>2. CASE \E d \in Delivery : Execute(d)
  BY <1>2, HandlerSync, DeliverSync DEF Execute
<1>3. QED
  BY <1>1, <1>2, ClerkSync, ProtectedSync DEF Next

\* When Svix has nothing left to deliver for an account that exists, its last revision
\* has been in the row, in whatever order the updates were handled, and is there still
\* unless an older one was saved after it: UpdateUser answers 2xx only after it has
\* saved the columns, and what CreateUser and AuthenticateMiddleware insert is never
\* newer and overwrites nothing.
THEOREM SyncedWhenSettledTheorem == Spec => []SyncedWhenSettled
<1>1. UserInv /\ SyncInv /\ [Next]_vars => SyncInv'
  BY SyncInvStep
<1>2. UserInv /\ SyncInv => SyncedWhenSettled
  <2> SUFFICES ASSUME UserInv, SyncInv, Exists, hooks = {}
               PROVE  row # NoRow /\ newest = Rev /\ (row.rev = Rev \/ overtaken)
    BY DEF SyncedWhenSettled
  <2>1. Rev \in Nat /\ Rev # 0
    <3>1. clerk \in Seq(BOOLEAN) /\ clerk # <<>>
      BY DEF UserInv, TypeOK, Exists
    <3>2. QED
      BY <3>1 DEF Rev
  <2>2. newest = Rev
    BY DEF SyncInv, RowInv, LastPending, CreationPending
  <2>3. QED
    BY <2>1, <2>2 DEF SyncInv, HeldInv
<1>3. QED
  BY UserInvTheorem, InitSyncInv, <1>1, <1>2, PTL DEF Spec
================================================================================
