----------------------------- MODULE ModelCalls -----------------------------
(***************************************************************************)
(* One run's model capability (inference_proxy.py): the host threads that  *)
(* take the sandbox's requests, the quota, the token they share with its   *)
(* lock, the headers of the last reply that the one endpoint object keeps, *)
(* and the time at which the provider says its usage window reopens.       *)
(*                                                                         *)
(* A token is a number, a later one is newer; the provider accepts those   *)
(* from `accepted' on.  A reply is its status with the reset times named   *)
(* by its headers and by its body, 0 for none.                             *)
(***************************************************************************)
EXTENDS Integers, Sequences, FiniteSets, FiniteSetsExt

CONSTANTS Calls, Quota, MaxConnections, Resets, MaxToken, NoOne

ASSUME ModelCallsAssumption ==
  /\ {Quota, MaxConnections, MaxToken} \subseteq Nat \ {0}
  /\ Resets \subseteq Nat \ {0}
  /\ IsFiniteSet(Calls) /\ NoOne \notin Calls

VARIABLES open, used, pc, tok, posts, reply, credential, lock, quiet, near,
          accepted, lastHeaders, limited
vars == <<open, used, pc, tok, posts, reply, credential, lock, quiet, near,
          accepted, lastHeaders, limited>>
call  == <<pc, tok, posts, reply>>
token == <<credential, lock, quiet, near>>
limit == <<lastHeaders, limited>>

Closed  == 0                      \* the credential of a closed capability
NoReply == [status |-> "none", head |-> 0, body |-> 0]
Says    == Resets \cup {0}
Replies(t) ==
  IF t < accepted THEN [status : {"401"}, head : {0}, body : {0}]
  ELSE [status : {"200"}, head : Says, body : {0}]
         \cup [status : {"429"}, head : Says, body : Says]
         \cup {[NoReply EXCEPT !.status = "lost"]}

TypeOK ==
  /\ open \in BOOLEAN /\ used \in 0 .. Quota
  /\ pc \in [Calls -> {"new", "read", "held", "asking", "post", "rejected",
                       "asked", "repost", "answered", "done"}]
  /\ tok \in [Calls -> 0 .. MaxToken] /\ posts \in [Calls -> Seq(0 .. MaxToken)]
  /\ reply \in [Calls -> [status : {"none", "200", "401", "429", "lost"}, head : Says, body : Says]]
  /\ credential \in 0 .. MaxToken /\ accepted \in 1 .. MaxToken
  /\ lock \in Calls \cup {NoOne}
  /\ quiet \in BOOLEAN /\ near \in BOOLEAN /\ lastHeaders \in Says /\ limited \in Says

Init ==
  /\ open = TRUE /\ used = 0
  /\ pc = [c \in Calls |-> "new"] /\ tok = [c \in Calls |-> 0]
  /\ posts = [c \in Calls |-> <<>>] /\ reply = [c \in Calls |-> NoReply]
  /\ credential = 1 /\ lock = NoOne /\ quiet = FALSE /\ near = FALSE
  /\ accepted = 1 /\ lastHeaders = 0 /\ limited = 0

At(c, from, to) == pc[c] = from /\ pc' = [pc EXCEPT ![c] = to]
Goes(c, to) == pc' = [pc EXCEPT ![c] = to]
Busy == {c \in Calls : pc[c] \notin {"new", "done"}}

\* A connection beyond the bound is shut down at once.
Accept(c) ==
  /\ open
  /\ At(c, "new", IF Cardinality(Busy) < MaxConnections THEN "read" ELSE "done")
  /\ UNCHANGED <<open, used, tok, posts, reply, accepted, token, limit>>

\* A request that is too long, too slow or outside the mode's policy.
Refuse(c) ==
  /\ At(c, "read", "done")
  /\ UNCHANGED <<open, used, tok, posts, reply, accepted, token, limit>>

\* The quota is reserved before the provider is contacted, under its lock.
Reserve(c) ==
  /\ At(c, "read", IF used < Quota THEN "held" ELSE "done")
  /\ used' = IF used < Quota THEN used + 1 ELSE used
  /\ UNCHANGED <<open, tok, posts, reply, accepted, token, limit>>

-----------------------------------------------------------------------------
\* The token, under its own lock.  A call that has to ask the host for a newer
\* one keeps the lock while the host resolves it.
Current(c) ==
  /\ lock = NoOne
  /\ IF near /\ ~quiet /\ credential # Closed
     THEN At(c, "held", "asking") /\ lock' = c /\ UNCHANGED tok
     ELSE /\ At(c, "held", IF credential = Closed THEN "done" ELSE "post")
          /\ tok' = [tok EXCEPT ![c] = credential] /\ UNCHANGED lock
  /\ UNCHANGED <<open, used, posts, reply, accepted, credential, quiet, near, limit>>

\* After a rejection: somebody else's newer token, else the host is asked.
RenewAlways(c) ==
  /\ lock = NoOne
  /\ IF credential = Closed THEN At(c, "rejected", "done") /\ UNCHANGED <<lock, tok>>
     ELSE At(c, "rejected", "asked") /\ lock' = c /\ UNCHANGED tok
  /\ UNCHANGED <<open, used, posts, reply, accepted, credential, quiet, near, limit>>
Renew(c) ==
  /\ lock = NoOne
  /\ IF credential = tok[c] THEN At(c, "rejected", "asked") /\ lock' = c /\ UNCHANGED tok
     ELSE /\ At(c, "rejected", IF credential = Closed THEN "done" ELSE "repost")
          /\ tok' = [tok EXCEPT ![c] = credential] /\ UNCHANGED lock
  /\ UNCHANGED <<open, used, posts, reply, accepted, credential, quiet, near, limit>>

Newer(c) ==
  /\ lock = c /\ credential < MaxToken
  /\ credential' = credential + 1 /\ near' = FALSE
  /\ tok' = [tok EXCEPT ![c] = credential + 1]
  /\ Goes(c, IF pc[c] = "asking" THEN "post" ELSE "repost")
  /\ lock' = NoOne
  /\ UNCHANGED <<open, used, posts, reply, quiet, accepted, limit>>

\* The host raises, or answers the token that it was told is stale.
NothingStale(c) ==
  /\ lock = c /\ quiet' = TRUE /\ lock' = NoOne
  /\ Goes(c, IF pc[c] = "asking" THEN "post" ELSE "repost")
  /\ tok' = [tok EXCEPT ![c] = credential]
  /\ UNCHANGED <<open, used, posts, reply, credential, near, accepted, limit>>
NothingLocked(c) ==
  /\ lock = c /\ quiet' = TRUE
  /\ Goes(c, IF pc[c] = "asking" THEN "post" ELSE "done")
  /\ tok' = [tok EXCEPT ![c] = credential]
  /\ UNCHANGED <<lock, open, used, posts, reply, credential, near, accepted, limit>>
Nothing(c) ==
  /\ lock = c /\ quiet' = TRUE /\ lock' = NoOne
  /\ Goes(c, IF pc[c] = "asking" THEN "post" ELSE "done")
  /\ tok' = [tok EXCEPT ![c] = credential]
  /\ UNCHANGED <<open, used, posts, reply, credential, near, accepted, limit>>

-----------------------------------------------------------------------------
\* The exchange with the provider.  Every answer leaves its headers in the
\* endpoint that all the calls share.
Sent(c, r) ==
  /\ posts' = [posts EXCEPT ![c] = Append(@, tok[c])]
  /\ reply' = [reply EXCEPT ![c] = r]
  /\ lastHeaders' = IF r.status = "lost" THEN lastHeaders ELSE r.head
  /\ UNCHANGED <<open, used, tok, accepted, token, limited>>
Post(c) == \E r \in Replies(tok[c]) :
  At(c, "post", IF r.status = "401" THEN "rejected" ELSE "answered") /\ Sent(c, r)
Repost(c) == \E r \in Replies(tok[c]) : At(c, "repost", "answered") /\ Sent(c, r)

\* A 429 that says when its window reopens; the answer then goes to the client.
NoteLast(c) ==
  /\ At(c, "answered", "done")
  /\ limited' = IF reply[c].status = "429" /\ Max({lastHeaders, reply[c].body}) > 0
                THEN Max({lastHeaders, reply[c].body}) ELSE limited
  /\ UNCHANGED <<open, used, tok, posts, reply, lastHeaders, accepted, token>>
NoteRefunds(c) ==
  /\ At(c, "answered", "done")
  /\ used' = IF reply[c].status = "200" THEN used ELSE used - 1
  /\ limited' = IF reply[c].status = "429" THEN Max({limited, lastHeaders, reply[c].body})
                ELSE limited
  /\ UNCHANGED <<open, tok, posts, reply, lastHeaders, accepted, token>>
Note(c) ==
  /\ At(c, "answered", "done")
  /\ limited' = IF reply[c].status = "429" THEN Max({limited, lastHeaders, reply[c].body})
                ELSE limited
  /\ UNCHANGED <<open, used, tok, posts, reply, lastHeaders, accepted, token>>

-----------------------------------------------------------------------------
\* The end of the turn: no further connection, and the credential is dropped
\* (its threads are daemons: nobody waits for them).
Shutdown == open /\ open' = FALSE /\ UNCHANGED <<used, call, accepted, token, limit>>
CloseUnlocked ==
  /\ ~open /\ credential' = Closed
  /\ UNCHANGED <<lock, open, used, call, quiet, near, accepted, limit>>
Close ==
  /\ ~open /\ lock = NoOne /\ credential # Closed /\ credential' = Closed
  /\ UNCHANGED <<lock, open, used, call, quiet, near, accepted, limit>>

\* The clock and the provider.
NearExpiry == /\ ~near /\ credential \in 1 .. (MaxToken - 1) /\ lock = NoOne /\ near' = TRUE
              /\ UNCHANGED <<open, used, call, credential, lock, quiet, accepted, limit>>
QuietOver  == /\ quiet /\ quiet' = FALSE
              /\ UNCHANGED <<open, used, call, credential, lock, near, accepted, limit>>
Revoke == /\ credential >= accepted /\ credential < MaxToken /\ accepted' = credential + 1
          /\ UNCHANGED <<open, used, call, token, limit>>

Handle(c) == \/ Refuse(c) \/ Reserve(c) \/ Current(c) \/ Renew(c) \/ Newer(c) \/ Nothing(c)
             \/ Post(c) \/ Repost(c) \/ Note(c)
Next == \/ \E c \in Calls : Accept(c) \/ Handle(c)
        \/ Shutdown \/ Close \/ NearExpiry \/ QuietOver \/ Revoke
\* Every thread goes on, the host and the provider answer within their
\* timeouts (UPSTREAM_TIMEOUT, the resolver's own), and the turn ends.
Fairness == /\ \A c \in Calls : WF_vars(Handle(c))
            /\ WF_vars(Shutdown) /\ SF_vars(Close)
Spec == Init /\ [][Next]_vars /\ Fairness

-----------------------------------------------------------------------------
\* The provider sees no more calls than the quota, whatever they end with; the
\* one retry after a 401 belongs to its call.
QuotaKept == /\ Cardinality({c \in Calls : posts[c] # <<>>}) <= Quota
             /\ \A c \in Calls : Len(posts[c]) <= 2

\* A call never sends the token again that the provider has just rejected.
RetryFresh == \A c \in Calls : Len(posts[c]) = 2 => posts[c][1] < posts[c][2]

\* The host is asked for a token only when the one that the capability holds is
\* near its end or was rejected: never because another call renewed it first.
AskedForCause == [][lock = NoOne /\ lock' # NoOne => near \/ credential < accepted]_vars

\* A credential that was closed is not brought back by a call that was waiting
\* for the host's answer.
ClosedStays == [][credential = Closed => credential' = Closed]_vars

\* The latest time that a 429 named in its body is the one the run remembers.
BodyKept == \A c \in Calls :
  pc[c] = "done" /\ reply[c].status = "429" => limited >= reply[c].body

\* The provider sees no call beyond the quota, none with a token it has just rejected; the
\* latest 429 is remembered; the host is asked for a token only for cause; and a closed
\* credential is not brought back by a call that waited for the host.
CallsKept == [](QuotaKept /\ RetryFresh /\ BodyKept) /\ AskedForCause /\ ClosedStays

\* Every call that was taken ends, and the credential is closed: nobody waits
\* for the lock of a call that failed.
Over == Busy = {} /\ credential = Closed
Ends == <>Over

\* inference_proxy.py:641: a window is never guessed: a time that is remembered
\* was named by a 429.
NeverGuessed == limited # 0 => \E c \in Calls :
  reply[c].status = "429" /\ limited \in {reply[c].head, reply[c].body}

\* inference_proxy.py:207: the resolver is left alone while it has nothing newer.
NotHammered == [][lock = NoOne /\ lock' # NoOne => ~quiet]_vars

\* inference_proxy.py:753: no call holds a credential when the capability ended.
NotRetained == credential = Closed =>
  \A c \in Calls : pc[c] \notin {"post", "rejected", "repost"}
=============================================================================
