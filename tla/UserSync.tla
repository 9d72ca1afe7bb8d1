------------------------------- MODULE UserSync -------------------------------
(***************************************************************************)
(* The row of one Clerk account in the table users.  Two roads write it:   *)
(* the webhooks of Clerk, delivered by Svix at least once and in any       *)
(* order, and the first authenticated request, which creates the row from  *)
(* what it fetches at Clerk.  Each event is stored with the row it is      *)
(* about.  clerk_id is unique in the table: one row, or none.              *)
(***************************************************************************)
EXTENDS Naturals, Sequences

CONSTANTS Delivery,    \* goroutines of the API that handle a webhook
          Request,     \* authenticated requests
          MaxChanges,  \* profile updates at Clerk
          MaxLost,     \* answers to webhooks that Svix never gets
          MaxUsers,    \* rows ever inserted for the account
          Faults       \* subset of {"db"}: a statement or a transaction fails

ASSUME UserSyncAssumption ==
  /\ MaxChanges \in Nat /\ MaxLost \in Nat /\ MaxUsers \in Nat
  /\ Faults \subseteq {"db"}

VARIABLES
  clerk,    \* the account at Clerk: whether it was banned, by revision
  gone,     \* whether it was deleted there
  hooks,    \* webhooks Svix still delivers
  lost,     \* answers lost so far
  row,      \* the row, or NoRow: the user's id and the revision its columns hold
  newest,   \* the newest revision it ever held, or 0
  overtaken,\* whether the last Save of an update wrote an older one than that
  ids,      \* ids used, one for each insert
  created,  \* ids of the UserCreated events stored
  deleted,  \* ids of the UserDeleted events stored
  dpc, hook, seen,  \* of a delivery: where it is, its webhook, the row it loaded
  rpc, found        \* of a request: where it is, its user (before: what it fetched)

account == <<clerk, gone>>
svix == <<hooks, lost>>
users == <<row, newest, overtaken, ids, created, deleted>>
deliveries == <<dpc, hook, seen>>
requests == <<rpc, found>>
vars == <<account, svix, users, deliveries, requests>>

NoRow == [id |-> 0, rev |-> 0]
Row == [id : 1 .. MaxUsers, rev : 1 .. MaxChanges + 1]
Hook == [kind : {"created", "updated", "deleted"}, rev : 1 .. MaxChanges + 1]
NoHook == [kind |-> "none", rev |-> 0]

TypeOK ==
  /\ clerk \in Seq(BOOLEAN) /\ Len(clerk) <= MaxChanges + 1
  /\ gone \in BOOLEAN
  /\ hooks \subseteq Hook /\ lost \in 0 .. MaxLost
  /\ row \in Row \cup {NoRow}
  /\ newest \in 0 .. MaxChanges + 1 /\ overtaken \in BOOLEAN
  /\ ids \in 0 .. MaxUsers
  /\ created \subseteq 1 .. MaxUsers /\ deleted \subseteq 1 .. MaxUsers
  /\ dpc \in [Delivery -> {"idle", "loaded"}]
  /\ hook \in [Delivery -> Hook \cup {NoHook}]
  /\ seen \in [Delivery -> Row \cup {NoRow}]
  /\ rpc \in [Request -> {"new", "unknown", "fetched", "served", "refused"}]
  /\ found \in [Request -> Row \cup {NoRow} \cup [id : {0}, rev : 1 .. MaxChanges + 1]]

Init ==
  /\ clerk = <<>> /\ gone = FALSE
  /\ hooks = {} /\ lost = 0
  /\ row = NoRow /\ newest = 0 /\ overtaken = FALSE
  /\ ids = 0 /\ created = {} /\ deleted = {}
  /\ dpc = [d \in Delivery |-> "idle"]
  /\ hook = [d \in Delivery |-> NoHook]
  /\ seen = [d \in Delivery |-> NoRow]
  /\ rpc = [r \in Request |-> "new"]
  /\ found = [r \in Request |-> NoRow]

--------------------------------------------------------------------------------
(* Clerk and Svix *)

Rev == Len(clerk)
Exists == clerk # <<>> /\ ~gone

SignUp ==
  /\ clerk = <<>>
  /\ clerk' = <<FALSE>>
  /\ hooks' = {[kind |-> "created", rev |-> 1]}
  /\ UNCHANGED <<gone, lost, users, deliveries, requests>>

\* An update may come while others are still under way, and be handled before them.
ChangeAccount ==
  /\ Exists
  /\ Rev <= MaxChanges
  /\ \E banned \in BOOLEAN : clerk' = Append(clerk, banned)
  /\ hooks' = hooks \cup {[kind |-> "updated", rev |-> Rev + 1]}
  /\ UNCHANGED <<gone, lost, users, deliveries, requests>>

CloseAccount ==
  /\ Exists
  /\ gone' = TRUE
  /\ hooks' = hooks \cup {[kind |-> "deleted", rev |-> Rev]}
  /\ UNCHANGED <<clerk, lost, users, deliveries, requests>>

--------------------------------------------------------------------------------
(* UserWebhookHandler *)

\* Each handler first looks for the row of the account; deleteUser does so inside
\* its transaction, but locks nothing.
Deliver(d) ==
  /\ dpc[d] = "idle"
  /\ \E h \in hooks : hook' = [hook EXCEPT ![d] = h]
  /\ dpc' = [dpc EXCEPT ![d] = "loaded"]
  /\ seen' = [seen EXCEPT ![d] = row]
  /\ UNCHANGED <<account, svix, users, requests>>

Answered(d) ==
  /\ dpc' = [dpc EXCEPT ![d] = "idle"]
  /\ hook' = [hook EXCEPT ![d] = NoHook]
  /\ seen' = [seen EXCEPT ![d] = NoRow]

\* A 2xx: Svix is done with the webhook, unless it does not get the answer.
Accept(d) ==
  /\ Answered(d)
  /\ \/ hooks' = hooks \ {hook[d]} /\ UNCHANGED lost
     \/ lost < MaxLost /\ lost' = lost + 1 /\ UNCHANGED hooks

\* A 4xx or 5xx: Svix delivers it again.
Reject(d) == Answered(d) /\ UNCHANGED svix

\* The row is written.
Write(user) ==
  /\ row' = user
  /\ newest' = IF user.rev > newest THEN user.rev ELSE newest

\* Create, which a row that was inserted in the meantime makes fail.
InsertUser(rev) ==
  /\ row = NoRow
  /\ ids < MaxUsers
  /\ ids' = ids + 1
  /\ Write([id |-> ids', rev |-> rev])
  /\ created' = created \cup {ids'}
  /\ UNCHANGED <<overtaken, deleted>>

\* Mutant: a row found on insert is replaced.
CreateUserReplaces(d) ==
  /\ dpc[d] = "loaded" /\ hook[d].kind = "created"
  /\ \/ seen[d] # NoRow /\ Accept(d) /\ UNCHANGED users
     \/ /\ seen[d] = NoRow /\ ids < MaxUsers
        /\ ids' = ids + 1
        /\ Write([id |-> ids', rev |-> hook[d].rev])
        /\ created' = created \cup {ids'}
        /\ UNCHANGED <<overtaken, deleted>>
        /\ Accept(d)
  /\ UNCHANGED <<account, requests>>

CreateUser(d) ==
  /\ dpc[d] = "loaded" /\ hook[d].kind = "created"
  /\ \/ seen[d] # NoRow /\ Accept(d) /\ UNCHANGED users
     \/ seen[d] = NoRow /\ InsertUser(hook[d].rev) /\ Accept(d)
     \/ seen[d] = NoRow /\ row # NoRow /\ Reject(d) /\ UNCHANGED users
  /\ UNCHANGED <<account, requests>>

\* Save writes the loaded user whole, with what the webhook says, be it older than
\* what the row holds: a row that was deleted since is inserted again, one that was
\* replaced since makes it fail.
Save(d) ==
  /\ seen[d] # NoRow /\ row.id \in {0, seen[d].id}
  /\ Write([id |-> seen[d].id, rev |-> hook[d].rev])
  /\ overtaken' = (hook[d].rev < newest)
  /\ UNCHANGED <<ids, created, deleted>>

\* Mutant: an update without a row is answered as if it were done.
UpdateUserIgnored(d) ==
  /\ dpc[d] = "loaded" /\ hook[d].kind = "updated"
  /\ \/ seen[d] = NoRow /\ Accept(d) /\ UNCHANGED users
     \/ Save(d) /\ Accept(d)
     \/ seen[d] # NoRow /\ row.id \notin {0, seen[d].id} /\ Reject(d) /\ UNCHANGED users
  /\ UNCHANGED <<account, requests>>

UpdateUser(d) ==
  /\ dpc[d] = "loaded" /\ hook[d].kind = "updated"
  /\ \/ seen[d] = NoRow /\ Reject(d) /\ UNCHANGED users
     \/ Save(d) /\ Accept(d)
     \/ seen[d] # NoRow /\ row.id \notin {0, seen[d].id} /\ Reject(d) /\ UNCHANGED users
  /\ UNCHANGED <<account, requests>>

\* Mutant: the row is deleted by clerk_id, whatever its id.
DeleteUserByClerkID(d) ==
  /\ dpc[d] = "loaded" /\ hook[d].kind = "deleted"
  /\ \/ seen[d] = NoRow /\ UNCHANGED users
     \/ /\ seen[d] # NoRow
        /\ row' = NoRow
        /\ deleted' = deleted \cup {seen[d].id}
        /\ UNCHANGED <<newest, overtaken, ids, created>>
  /\ Accept(d)
  /\ UNCHANGED <<account, requests>>

DeleteUser(d) ==
  /\ dpc[d] = "loaded" /\ hook[d].kind = "deleted"
  /\ \/ seen[d] = NoRow /\ UNCHANGED users
     \/ /\ seen[d] # NoRow
        /\ row' = IF row.id = seen[d].id THEN NoRow ELSE row
        /\ deleted' = deleted \cup {seen[d].id}
        /\ UNCHANGED <<newest, overtaken, ids, created>>
  /\ Accept(d)
  /\ UNCHANGED <<account, requests>>

HandlerFails(d) ==
  /\ "db" \in Faults
  /\ dpc[d] = "loaded"
  /\ Reject(d)
  /\ UNCHANGED <<account, users, requests>>

--------------------------------------------------------------------------------
(* AuthenticateMiddleware: the token stays valid, whatever becomes of the account *)

Answer(user) == IF clerk[user.rev] THEN "refused" ELSE "served"

Authenticate(r) ==
  /\ rpc[r] = "new"
  /\ clerk # <<>>
  /\ rpc' = [rpc EXCEPT ![r] = IF row = NoRow THEN "unknown" ELSE Answer(row)]
  /\ found' = [found EXCEPT ![r] = row]
  /\ UNCHANGED <<account, svix, users, deliveries>>

FetchUser(r) ==
  /\ rpc[r] = "unknown"
  /\ \/ /\ ~gone
        /\ rpc' = [rpc EXCEPT ![r] = "fetched"]
        /\ found' = [found EXCEPT ![r] = [id |-> 0, rev |-> Rev]]
     \/ gone /\ rpc' = [rpc EXCEPT ![r] = "refused"] /\ UNCHANGED found
  /\ UNCHANGED <<account, svix, users, deliveries>>

\* Mutant: the request goes on with the user it could not store.
CreateRequesterAnyway(r) ==
  /\ rpc[r] = "fetched"
  /\ ids < MaxUsers
  /\ ids' = ids + 1
  /\ found' = [found EXCEPT ![r].id = ids']
  /\ rpc' = [rpc EXCEPT ![r] = Answer(found[r])]
  /\ IF row = NoRow
     THEN Write(found'[r]) /\ created' = created \cup {ids'}
     ELSE UNCHANGED <<row, newest, created>>
  /\ UNCHANGED <<overtaken, deleted, account, svix, deliveries>>

CreateRequester(r) ==
  /\ rpc[r] = "fetched"
  /\ \/ /\ InsertUser(found[r].rev)
        /\ found' = [found EXCEPT ![r] = row']
        /\ rpc' = [rpc EXCEPT ![r] = Answer(found[r])]
     \/ row # NoRow /\ rpc' = [rpc EXCEPT ![r] = "refused"] /\ UNCHANGED <<users, found>>
  /\ UNCHANGED <<account, svix, deliveries>>

RequestFails(r) ==
  /\ "db" \in Faults
  /\ rpc[r] \in {"new", "unknown", "fetched"} /\ clerk # <<>>
  /\ rpc' = [rpc EXCEPT ![r] = "refused"]
  /\ UNCHANGED <<found, account, svix, users, deliveries>>

--------------------------------------------------------------------------------
Execute(d) == Deliver(d) \/ CreateUser(d) \/ UpdateUser(d) \/ DeleteUser(d) \/ HandlerFails(d)

Protected(r) == Authenticate(r) \/ FetchUser(r) \/ CreateRequester(r) \/ RequestFails(r)

Next ==
  \/ SignUp \/ ChangeAccount \/ CloseAccount
  \/ \E d \in Delivery : Execute(d)
  \/ \E r \in Request : Protected(r)

Spec == Init /\ [][Next]_vars

--------------------------------------------------------------------------------
(* Properties *)

\* Nobody vanishes unannounced: a user whose UserCreated event was stored is the one
\* in the table, or had its UserDeleted event stored.
RemovalIsAnnounced == created \ deleted \subseteq {row.id}

\* While the account exists, its user keeps the id videos refer to, however many
\* webhooks and requests try to create it.
IdentityIsStable == [][row # NoRow /\ ~gone => row'.id = row.id]_vars

\* A request acts as a user that was announced: the one in the table, unless the
\* account has been closed since.
ServedAsStored ==
  \A r \in Request : rpc[r] = "served" =>
    found[r].id \in created /\ (~gone => found[r].id = row.id)

\* When Svix has nothing left to deliver for an account that still exists, whatever
\* the order in which webhooks and requests wrote its row: the row has held the last
\* revision, the ban included, and holds it still unless an older update was saved
\* after it, which UpdateUser does not refuse.
SyncedWhenSettled ==
  Exists /\ hooks = {} =>
    row # NoRow /\ newest = Rev /\ (row.rev = Rev \/ overtaken)
================================================================================
