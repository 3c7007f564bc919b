--------------------------- MODULE WorkersProofs ---------------------------
(***************************************************************************)
(* Proofs about what the workers of a host share.  First ModelCalls, for   *)
(* any number of calls, quota, bound on connections and sequence of        *)
(* tokens: the properties of CallsKept hang together by what a call holds  *)
(* at each step: the lock, a token that is no newer than the capability's, *)
(* and the posts it has made with it.  Then Pacing and ObserverFeed.       *)
(***************************************************************************)
EXTENDS MCWorkers, FiniteSetTheorems, SequenceTheorems, TLAPS

Holding == {"held", "asking", "post", "rejected", "asked", "repost", "answered"}

\* The lock is held exactly by a call that waits for the host, and keeps the capability open.
LockHeld ==
  /\ \A c \in Calls : pc[c] \in {"asking", "asked"} <=> lock = c
  /\ lock # NoOne => credential # Closed

\* A call's token was the capability's, which only grows or is closed.
TokenOf(c) ==
  /\ pc[c] \in {"post", "rejected", "asked", "repost"} => tok[c] # Closed
  /\ pc[c] \in {"post", "rejected", "asked", "repost"} /\ credential # Closed => tok[c] <= credential
  /\ pc[c] = "asked" => tok[c] = credential
  /\ pc[c] \in {"rejected", "asked"} => tok[c] < accepted
TokenKnown == \A c \in Calls : TokenOf(c)

\* The posts of a call, and its reply, by its step.
PostsOf(c) ==
  /\ pc[c] \in {"new", "read", "held", "asking", "post"} => posts[c] = <<>> /\ reply[c].status = "none"
  /\ pc[c] \in {"rejected", "asked", "repost"} => Len(posts[c]) = 1 /\ reply[c].status = "401"
  /\ pc[c] \in {"rejected", "asked"} => posts[c][1] = tok[c]
  /\ pc[c] = "repost" => posts[c][1] < tok[c]
  /\ Len(posts[c]) <= 2
PostsMade == \A c \in Calls : PostsOf(c)

\* The calls the quota was reserved for are counted.
Reserved == {c \in Calls : pc[c] \in Holding \/ posts[c] # <<>>}
QuotaCounts == Cardinality(Reserved) <= used /\ used <= Quota

CallsInv == LockHeld /\ TokenKnown /\ PostsMade /\ QuotaCounts /\ RetryFresh /\ BodyKept

-----------------------------------------------------------------------------
\* Operators: the greatest of three times, and what the provider may answer.
LEMMA MaxOfThree ==
  ASSUME NEW a \in Nat, NEW b \in Nat, NEW d \in Nat
  PROVE  Max({a, b, d}) \in {a, b, d} /\ Max({a, b, d}) >= a /\ Max({a, b, d}) >= b /\ Max({a, b, d}) >= d
<1>1. \E m \in {a, b, d} : \A y \in {a, b, d} : m >= y
  <2>1. CASE a >= b /\ a >= d
    BY <2>1
  <2>2. CASE b >= a /\ b >= d
    BY <2>2
  <2>3. CASE d >= a /\ d >= b
    BY <2>3
  <2> QED BY <2>1, <2>2, <2>3
<1> QED BY <1>1 DEF Max

LEMMA AppendToNone ==
  ASSUME NEW S, NEW x \in S
  PROVE  Len(Append(<<>>, x)) = 1 /\ Append(<<>>, x)[1] = x
OBVIOUS

LEMMA AppendToOne ==
  ASSUME NEW S, NEW x \in S, NEW q \in Seq(S), Len(q) = 1
  PROVE  Len(Append(q, x)) = 2 /\ Append(q, x)[1] = q[1] /\ Append(q, x)[2] = x
<1>1. Len(Append(q, x)) = Len(q) + 1
  OBVIOUS
<1>2. Append(q, x)[Len(q) + 1] = x
  BY AppendProperties
<1>3. Append(q, x)[1] = q[1]
  <2>1. \A i \in 1 .. Len(q) : Append(q, x)[i] = q[i]
    BY AppendProperties
  <2> QED BY <2>1
<1> QED BY <1>1, <1>2, <1>3

Reply == [status : {"none", "200", "401", "429", "lost"}, head : Says, body : Says]

LEMMA Params ==
  /\ Quota \in Nat /\ Quota >= 1 /\ MaxToken \in Nat /\ MaxToken >= 1
  /\ IsFiniteSet(Calls) /\ NoOne \notin Calls
BY ModelCallsAssumption

LEMMA SaysNat == Says \subseteq Nat /\ 0 \in Says
BY ModelCallsAssumption DEF Says

\* A rejected token is answered by 401, and no other is.
LEMMA RepliesTyped ==
  ASSUME NEW t, NEW r \in Replies(t)
  PROVE  r \in Reply /\ r.status # "none" /\ (r.status = "401" <=> t < accepted)
<1>1. CASE t < accepted
  BY <1>1, SaysNat DEF Replies, Reply
<1>2. CASE ~(t < accepted)
  <2>1. CASE r = [NoReply EXCEPT !.status = "lost"]
    BY <1>2, <2>1, SaysNat DEF NoReply, Reply
  <2>2. CASE r \in [status : {"200"}, head : Says, body : {0}] \cup [status : {"429"}, head : Says, body : Says]
    BY <1>2, <2>2, SaysNat DEF Reply
  <2> QED BY <1>2, <2>1, <2>2 DEF Replies
<1> QED BY <1>1, <1>2

-----------------------------------------------------------------------------
LEMMA InitType == Init => TypeOK
<1> SUFFICES ASSUME Init PROVE TypeOK
  OBVIOUS
<1>1. NoReply \in Reply
  BY SaysNat DEF NoReply, Reply
<1>2. <<>> \in Seq(0 .. MaxToken)
  OBVIOUS
<1>3. used \in 0 .. Quota /\ credential \in 0 .. MaxToken /\ accepted \in 1 .. MaxToken
  BY Params DEF Init
<1>4. posts \in [Calls -> Seq(0 .. MaxToken)] /\ reply \in [Calls -> Reply]
  BY <1>1, <1>2 DEF Init
<1>5. tok \in [Calls -> 0 .. MaxToken]
  BY Params DEF Init
<1> QED BY <1>3, <1>4, <1>5, SaysNat DEF Init, TypeOK, Reply

LEMMA TypeStep == TypeOK /\ [Next]_vars => TypeOK'
<1> SUFFICES ASSUME TypeOK, [Next]_vars PROVE TypeOK'
  OBVIOUS
<1> USE Params, SaysNat DEF TypeOK, At, Goes, Closed
<1>1. ASSUME NEW c \in Calls, Accept(c) \/ Refuse(c) PROVE TypeOK'
  BY <1>1 DEF Accept, Refuse, token, limit
<1>8. ASSUME NEW c \in Calls, Reserve(c) PROVE TypeOK'
  BY <1>8 DEF Reserve, token, limit
<1>2. ASSUME NEW c \in Calls, Current(c) \/ Renew(c) PROVE TypeOK'
  BY <1>2 DEF Current, Renew, token, limit
<1>3. ASSUME NEW c \in Calls, Newer(c) PROVE TypeOK'
  <2>1. credential' \in 0 .. MaxToken /\ tok' \in [Calls -> 0 .. MaxToken]
    BY <1>3 DEF Newer
  <2> QED BY <1>3, <2>1 DEF Newer, limit
<1>9. ASSUME NEW c \in Calls, Nothing(c) PROVE TypeOK'
  BY <1>9 DEF Nothing, limit
<1>4. ASSUME NEW c \in Calls, NEW r \in Replies(tok[c]), Sent(c, r),
             At(c, "post", IF r.status = "401" THEN "rejected" ELSE "answered") \/ At(c, "repost", "answered")
      PROVE  TypeOK'
  <2>1. posts' \in [Calls -> Seq(0 .. MaxToken)]
    BY <1>4 DEF Sent
  <2>2. reply' \in [Calls -> Reply] /\ lastHeaders' \in Says
    BY <1>4, RepliesTyped DEF Sent, Reply
  <2> QED BY <1>4, <2>1, <2>2 DEF Sent, token, Reply
<1>5. ASSUME NEW c \in Calls, Note(c) PROVE TypeOK'
  <2>1. reply[c].body \in Says
    OBVIOUS
  <2>2. Max({limited, lastHeaders, reply[c].body}) \in {limited, lastHeaders, reply[c].body}
    BY <2>1, MaxOfThree
  <2>3. limited' \in Says
    BY <1>5, <2>1, <2>2 DEF Note
  <2> QED BY <1>5, <2>3 DEF Note, token
<1>6. CASE Shutdown
  <2>1. open' \in BOOLEAN
    BY <1>6 DEF Shutdown
  <2> QED BY <1>6, <2>1 DEF Shutdown, call, token, limit
<1>12. CASE Close
  <2>1. credential' \in 0 .. MaxToken
    BY <1>12 DEF Close
  <2> QED BY <1>12, <2>1 DEF Close, call, limit
<1>11. CASE NearExpiry \/ QuietOver
  BY <1>11 DEF NearExpiry, QuietOver, call, limit
<1>10. CASE Revoke
  BY <1>10 DEF Revoke, call, token, limit
<1>7. CASE UNCHANGED vars
  BY <1>7 DEF vars
<1> QED BY <1>1, <1>2, <1>3, <1>4, <1>5, <1>6, <1>7, <1>8, <1>9, <1>10, <1>11, <1>12 DEF Next, Handle, Post, Repost

-----------------------------------------------------------------------------
LEMMA LockStep == TypeOK /\ CallsInv /\ [Next]_vars => LockHeld'
<1> SUFFICES ASSUME TypeOK, CallsInv, [Next]_vars PROVE LockHeld'
  OBVIOUS
<1> USE Params DEF TypeOK, CallsInv, LockHeld, At, Goes, Closed
<1>1. ASSUME NEW c \in Calls, Accept(c) \/ Refuse(c) \/ Reserve(c) \/ Note(c) PROVE LockHeld'
  BY <1>1 DEF Accept, Refuse, Reserve, Note, token
<1>2. ASSUME NEW c \in Calls, Current(c) PROVE LockHeld'
  BY <1>2 DEF Current
\* A rejected call asks for a token only while the capability is open: its own is that of one.
<1>3. ASSUME NEW c \in Calls, Renew(c) PROVE LockHeld'
  BY <1>3 DEF Renew, TokenKnown, TokenOf
<1>4. ASSUME NEW c \in Calls, Newer(c) PROVE LockHeld'
  BY <1>4 DEF Newer
<1>8. ASSUME NEW c \in Calls, Nothing(c) PROVE LockHeld'
  BY <1>8 DEF Nothing
<1>5. ASSUME NEW c \in Calls, Post(c) \/ Repost(c) PROVE LockHeld'
  BY <1>5 DEF Post, Repost, Sent, token
<1>6. CASE Shutdown \/ Close \/ NearExpiry \/ QuietOver \/ Revoke
  BY <1>6 DEF Shutdown, Close, NearExpiry, QuietOver, Revoke, call, token
<1>7. CASE UNCHANGED vars
  BY <1>7 DEF vars
<1> QED BY <1>1, <1>2, <1>3, <1>4, <1>5, <1>6, <1>7, <1>8 DEF Next, Handle

LEMMA TokenStep == TypeOK /\ CallsInv /\ [Next]_vars => TokenKnown'
<1> SUFFICES ASSUME TypeOK, CallsInv, [Next]_vars PROVE TokenKnown'
  OBVIOUS
<1> USE Params DEF TypeOK, CallsInv, LockHeld, TokenKnown, TokenOf, At, Goes, Closed
<1>1. ASSUME NEW c \in Calls, Accept(c) \/ Refuse(c) \/ Reserve(c) \/ Note(c) PROVE TokenKnown'
  <2>1. UNCHANGED <<tok, credential, accepted>>
    BY <1>1 DEF Accept, Refuse, Reserve, Note, token
  <2>2. \A d \in Calls : pc'[d] \in {"post", "rejected", "asked", "repost"} => pc'[d] = pc[d]
    BY <1>1 DEF Accept, Refuse, Reserve, Note
  <2> QED BY <2>1, <2>2
<1>2. ASSUME NEW c \in Calls, Current(c) PROVE TokenKnown'
  BY <1>2 DEF Current
<1>3. ASSUME NEW c \in Calls, Renew(c) PROVE TokenKnown'
  BY <1>3 DEF Renew
<1>4. ASSUME NEW c \in Calls, Newer(c) PROVE TokenKnown'
  <2>1. credential # Closed /\ credential' = credential + 1 /\ credential' # Closed /\ accepted' = accepted
    BY <1>4 DEF Newer
  <2>2. tok'[c] = credential' /\ pc'[c] \in {"post", "repost"}
    BY <1>4 DEF Newer
  <2>3. \A d \in Calls : d # c => tok'[d] = tok[d] /\ pc'[d] = pc[d] /\ pc[d] # "asked"
    BY <1>4 DEF Newer
  <2>4. credential \in Nat /\ \A d \in Calls : tok[d] \in Nat
    OBVIOUS
  <2>5. ASSUME NEW d \in Calls, d # c PROVE TokenOf(d)'
    BY ONLY <2>1, <2>3, <2>4, <2>5, TokenKnown DEF TokenKnown, TokenOf, Closed
  <2> QED BY <2>2, <2>1, <2>5
<1>8. ASSUME NEW c \in Calls, Nothing(c) PROVE TokenKnown'
  <2>1. credential # Closed /\ credential' = credential /\ accepted' = accepted
    BY <1>8 DEF Nothing
  <2>2. tok'[c] = credential /\ pc'[c] \in {"post", "done"}
    BY <1>8 DEF Nothing
  <2>3. \A d \in Calls : d # c => tok'[d] = tok[d] /\ pc'[d] = pc[d]
    BY <1>8 DEF Nothing
  <2>4. ASSUME NEW d \in Calls, d # c PROVE TokenOf(d)'
    BY ONLY <2>1, <2>3, <2>4, TokenKnown DEF TokenKnown, TokenOf, Closed
  <2>5. TokenOf(c)'
    BY <2>1, <2>2
  <2> QED BY <2>4, <2>5
<1>5. ASSUME NEW c \in Calls, NEW r \in Replies(tok[c]), Sent(c, r),
             At(c, "post", IF r.status = "401" THEN "rejected" ELSE "answered") \/ At(c, "repost", "answered")
      PROVE  TokenKnown'
  <2>1. UNCHANGED <<tok, credential, accepted>>
    BY <1>5 DEF Sent, token
  <2>2. \A d \in Calls \ {c} : pc'[d] = pc[d]
    BY <1>5
  <2>3. pc[c] \in {"post", "repost"} /\ pc'[c] \in {"rejected", "answered"}
    BY <1>5
  <2>4. pc'[c] = "rejected" => tok[c] < accepted
    BY <1>5, RepliesTyped
  <2> QED BY <2>1, <2>2, <2>3, <2>4
<1>6. CASE Shutdown \/ Close \/ NearExpiry \/ QuietOver \/ Revoke
  BY <1>6 DEF Shutdown, Close, NearExpiry, QuietOver, Revoke, call, token
<1>7. CASE UNCHANGED vars
  BY <1>7 DEF vars
<1> QED BY <1>1, <1>2, <1>3, <1>4, <1>5, <1>6, <1>7, <1>8 DEF Next, Handle, Post, Repost

LEMMA PostsStep == TypeOK /\ CallsInv /\ [Next]_vars => PostsMade' /\ RetryFresh'
<1> SUFFICES ASSUME TypeOK, CallsInv, [Next]_vars PROVE PostsMade' /\ RetryFresh'
  OBVIOUS
<1> USE Params DEF TypeOK, CallsInv, LockHeld, TokenKnown, TokenOf, PostsMade, PostsOf, RetryFresh, At, Goes, Closed
<1>1. ASSUME NEW c \in Calls, Accept(c) \/ Refuse(c) \/ Reserve(c) \/ Note(c) PROVE PostsMade' /\ RetryFresh'
  <2>1. UNCHANGED <<tok, posts, reply>>
    BY <1>1 DEF Accept, Refuse, Reserve, Note
  <2>2. \A d \in Calls : \/ pc'[d] = pc[d] \/ pc'[d] = "done"
                         \/ pc[d] \in {"new", "read"} /\ pc'[d] \in {"read", "held"}
    BY <1>1 DEF Accept, Refuse, Reserve, Note
  <2> QED BY <2>1, <2>2
<1>2. ASSUME NEW c \in Calls, Current(c) PROVE PostsMade' /\ RetryFresh'
  BY <1>2 DEF Current
\* Somebody else's token is newer than the one that was rejected, and so is the host's.
<1>3. ASSUME NEW c \in Calls, Renew(c) PROVE PostsMade' /\ RetryFresh'
  BY <1>3 DEF Renew
<1>4. ASSUME NEW c \in Calls, Newer(c) \/ Nothing(c) PROVE PostsMade' /\ RetryFresh'
  BY <1>4 DEF Newer, Nothing
<1>5. ASSUME NEW c \in Calls, NEW r \in Replies(tok[c]), Sent(c, r),
             At(c, "post", IF r.status = "401" THEN "rejected" ELSE "answered") \/ At(c, "repost", "answered")
      PROVE  PostsMade' /\ RetryFresh'
  <2>1. /\ tok' = tok /\ posts'[c] = Append(posts[c], tok[c]) /\ reply'[c] = r
        /\ \A d \in Calls : d # c => pc'[d] = pc[d] /\ posts'[d] = posts[d] /\ reply'[d] = reply[d]
    BY <1>5 DEF Sent
  <2>2. tok[c] \in 0 .. MaxToken /\ posts[c] \in Seq(0 .. MaxToken)
    OBVIOUS
  <2>3. CASE pc[c] = "post"
    <3>1. posts[c] = <<>> /\ pc'[c] = IF r.status = "401" THEN "rejected" ELSE "answered"
      BY <1>5, <2>3
    <3>2. Len(posts'[c]) = 1 /\ posts'[c][1] = tok[c]
      BY ONLY <2>1, <2>2, <3>1, AppendToNone
    <3>3. PostsOf(c)' /\ \A d \in Calls : d # c => PostsOf(d)'
      BY ONLY <1>5, <2>1, <3>1, <3>2, RepliesTyped, PostsMade DEF PostsMade, PostsOf
    <3>4. \A d \in Calls : Len(posts'[d]) = 2 => posts'[d] = posts[d] /\ d # c
      BY ONLY <2>1, <3>2
    <3> QED BY ONLY <3>3, <3>4, RetryFresh DEF RetryFresh, PostsMade
  <2>4. CASE pc[c] = "repost"
    <3>1. Len(posts[c]) = 1 /\ posts[c][1] < tok[c] /\ pc'[c] = "answered"
      BY <1>5, <2>4
    <3>2. Len(posts'[c]) = 2 /\ posts'[c][1] = posts[c][1] /\ posts'[c][2] = tok[c]
      BY ONLY <2>1, <2>2, <3>1, AppendToOne
    <3>3. PostsOf(c)' /\ \A d \in Calls : d # c => PostsOf(d)'
      BY ONLY <2>1, <3>1, <3>2, PostsMade DEF PostsMade, PostsOf
    <3> QED BY ONLY <2>1, <3>1, <3>2, <3>3, RetryFresh DEF RetryFresh, PostsMade
  <2> QED BY <1>5, <2>3, <2>4
<1>6. CASE Shutdown \/ Close \/ NearExpiry \/ QuietOver \/ Revoke
  BY <1>6 DEF Shutdown, Close, NearExpiry, QuietOver, Revoke, call, token
<1>7. CASE UNCHANGED vars
  BY <1>7 DEF vars
<1> QED BY <1>1, <1>2, <1>3, <1>4, <1>5, <1>6, <1>7 DEF Next, Handle, Post, Repost

\* The quota is counted before a call is let go on; no other step adds to those it counts.
LEMMA QuotaStep == TypeOK /\ TypeOK' /\ CallsInv /\ [Next]_vars => QuotaCounts'
<1> SUFFICES ASSUME TypeOK, TypeOK', CallsInv, [Next]_vars PROVE QuotaCounts'
  OBVIOUS
<1>0. IsFiniteSet(Reserved) /\ Cardinality(Reserved) \in Nat
  BY Params, FS_Subset, FS_CardinalityType DEF Reserved
<1>1. ASSUME NEW c \in Calls, Reserve(c), used < Quota PROVE QuotaCounts'
  <2>1. c \notin Reserved /\ Reserved' = Reserved \cup {c}
    BY <1>1 DEF Reserve, At, Reserved, Holding, CallsInv, PostsMade, PostsOf, TypeOK
  <2>2. Cardinality(Reserved') = Cardinality(Reserved) + 1
    BY <1>0, <2>1, FS_AddElement
  <2> QED
    BY <1>0, <1>1, <2>2, Params DEF Reserve, CallsInv, QuotaCounts, TypeOK
<1>2. ASSUME UNCHANGED used, Reserved' \subseteq Reserved PROVE QuotaCounts'
  <2>1. Cardinality(Reserved') <= Cardinality(Reserved) /\ Cardinality(Reserved') \in Nat
    BY <1>0, <1>2, FS_Subset, FS_CardinalityType
  <2>2. used \in Nat /\ Cardinality(Reserved) <= used /\ used <= Quota
    BY Params DEF CallsInv, QuotaCounts, TypeOK
  <2> QED BY <1>0, <1>2, <2>1, <2>2, Params DEF QuotaCounts
<1> USE DEF Reserved, Holding, CallsInv, PostsMade, PostsOf, TypeOK, At, Goes
<1>3. ASSUME NEW c \in Calls, Reserve(c), ~(used < Quota) PROVE QuotaCounts'
  BY <1>2, <1>3 DEF Reserve
<1>4. ASSUME NEW c \in Calls, Accept(c) \/ Refuse(c) \/ Note(c) PROVE QuotaCounts'
  BY <1>2, <1>4 DEF Accept, Refuse, Note
<1>5. ASSUME NEW c \in Calls, Current(c) \/ Renew(c) PROVE QuotaCounts'
  BY <1>2, <1>5 DEF Current, Renew
<1>6. ASSUME NEW c \in Calls, Newer(c) \/ Nothing(c) PROVE QuotaCounts'
  <2>1. pc[c] \in {"asking", "asked"}
    BY <1>6 DEF Newer, Nothing, LockHeld
  <2> QED BY <1>2, <1>6, <2>1 DEF Newer, Nothing
<1>7. ASSUME NEW c \in Calls, Post(c) \/ Repost(c) PROVE QuotaCounts'
  BY <1>2, <1>7 DEF Post, Repost, Sent
<1>8. CASE Shutdown \/ Close \/ NearExpiry \/ QuietOver \/ Revoke
  BY <1>2, <1>8 DEF Shutdown, Close, NearExpiry, QuietOver, Revoke, call
<1>9. CASE UNCHANGED vars
  BY <1>2, <1>9 DEF vars
<1> QED BY <1>1, <1>3, <1>4, <1>5, <1>6, <1>7, <1>8, <1>9 DEF Next, Handle

\* A call that ends with a 429 has noted it, and what is noted only grows.
LEMMA BodyStep == TypeOK /\ CallsInv /\ [Next]_vars => BodyKept'
<1> SUFFICES ASSUME TypeOK, CallsInv, [Next]_vars PROVE BodyKept'
  OBVIOUS
<1> USE SaysNat DEF TypeOK, CallsInv, LockHeld, PostsMade, PostsOf, BodyKept, At, Goes
<1>1. ASSUME NEW c \in Calls, Accept(c) \/ Refuse(c) \/ Reserve(c) PROVE BodyKept'
  BY <1>1 DEF Accept, Refuse, Reserve, limit
<1>2. ASSUME NEW c \in Calls, Current(c) \/ Renew(c) PROVE BodyKept'
  BY <1>2 DEF Current, Renew, limit
<1>3. ASSUME NEW c \in Calls, Newer(c) \/ Nothing(c) PROVE BodyKept'
  BY <1>3 DEF Newer, Nothing, limit
<1>4. ASSUME NEW c \in Calls, Post(c) \/ Repost(c) PROVE BodyKept'
  <2>1. limited' = limited /\ pc'[c] # "done"
    BY <1>4 DEF Post, Repost, Sent
  <2>2. \A d \in Calls \ {c} : pc'[d] = pc[d] /\ reply'[d] = reply[d]
    BY <1>4 DEF Post, Repost, Sent
  <2> QED BY <2>1, <2>2
<1>5. ASSUME NEW c \in Calls, Note(c) PROVE BodyKept'
  <2> DEFINE most == Max({limited, lastHeaders, reply[c].body})
  <2>1. /\ limited \in Nat /\ lastHeaders \in Nat
        /\ \A d \in Calls : reply[d].body \in Nat
    OBVIOUS
  <2>2. most \in Nat /\ most >= limited /\ most >= reply[c].body
    <3>1. limited \in Nat /\ lastHeaders \in Nat /\ reply[c].body \in Nat
      BY <2>1
    <3> QED BY ONLY <3>1, MaxOfThree
  <2>3. limited' = IF reply[c].status = "429" THEN most ELSE limited
    BY <1>5 DEF Note
  <2>4. limited' \in Nat /\ limited' >= limited /\ (reply[c].status = "429" => limited' >= reply[c].body)
    BY <2>1, <2>2, <2>3
  <2>5. reply' = reply /\ \A d \in Calls : d # c => pc'[d] = pc[d]
    BY <1>5 DEF Note
  <2> HIDE DEF most
  <2>6. ASSUME NEW d \in Calls, pc'[d] = "done", reply[d].status = "429" PROVE limited' >= reply[d].body
    <3>1. CASE d = c
      BY <3>1, <2>4, <2>6
    <3>2. CASE d # c
      BY <3>2, <2>1, <2>4, <2>5, <2>6
    <3> QED BY <3>1, <3>2
  <2> QED BY <2>5, <2>6
<1>6. CASE Shutdown \/ Close \/ NearExpiry \/ QuietOver \/ Revoke
  BY <1>6 DEF Shutdown, Close, NearExpiry, QuietOver, Revoke, call, limit
<1>7. CASE UNCHANGED vars
  BY <1>7 DEF vars
<1> QED BY <1>1, <1>2, <1>3, <1>4, <1>5, <1>6, <1>7 DEF Next, Handle

LEMMA InitInv == Init => CallsInv
<1> SUFFICES ASSUME Init PROVE CallsInv
  OBVIOUS
<1>1. LockHeld /\ TokenKnown /\ PostsMade /\ RetryFresh /\ BodyKept
  BY Params DEF Init, NoReply, LockHeld, TokenKnown, TokenOf, PostsMade, PostsOf, RetryFresh, BodyKept, Closed
<1>2. Reserved = {}
  BY DEF Init, Reserved, Holding
<1> QED BY <1>1, <1>2, FS_EmptySet, Params DEF CallsInv, QuotaCounts, Init

LEMMA InvMeans == TypeOK /\ CallsInv => QuotaKept /\ RetryFresh /\ BodyKept
<1> SUFFICES ASSUME TypeOK, CallsInv PROVE QuotaKept
  BY DEF CallsInv
<1>1. {c \in Calls : posts[c] # <<>>} \subseteq Reserved /\ IsFiniteSet(Reserved)
  BY Params, FS_Subset DEF Reserved
<1>2. Cardinality({c \in Calls : posts[c] # <<>>}) <= Cardinality(Reserved)
  BY <1>1, FS_Subset
<1> QED
  BY <1>1, <1>2, FS_Subset, FS_CardinalityType, Params
  DEF CallsInv, QuotaCounts, PostsMade, PostsOf, QuotaKept, TypeOK

\* The lock is taken for a token near its end or one that was rejected.
LEMMA AskStep ==
  TypeOK /\ CallsInv /\ [Next]_vars => [lock = NoOne /\ lock' # NoOne => near \/ credential < accepted]_vars
<1> SUFFICES ASSUME TypeOK, CallsInv, Next, lock = NoOne, lock' # NoOne PROVE near \/ credential < accepted
  OBVIOUS
<1>1. PICK c \in Calls : Current(c) \/ Renew(c)
  BY DEF Next, Handle, Accept, Refuse, Reserve, Newer, Nothing, Post, Repost, Sent, Note, Shutdown, Close,
         NearExpiry, QuietOver, Revoke, token
<1> QED BY <1>1 DEF Current, Renew, At, TypeOK, CallsInv, TokenKnown, TokenOf

\* Only a call that holds the lock brings a credential, and under the lock nobody closes.
LEMMA CloseStep ==
  TypeOK /\ CallsInv /\ [Next]_vars => [credential = Closed => credential' = Closed]_vars
<1> SUFFICES ASSUME TypeOK, CallsInv, Next, credential = Closed PROVE credential' = Closed
  OBVIOUS
<1>1. lock = NoOne
  BY DEF CallsInv, LockHeld
<1> QED
  BY <1>1, Params
  DEF Next, Handle, Accept, Refuse, Reserve, Current, Renew, Newer, Nothing, Post, Repost, Sent, Note, Shutdown,
      Close, NearExpiry, QuietOver, Revoke, token

\* The provider sees no call beyond the quota and none with a token that it has just rejected, the
\* latest 429 is remembered, the host is asked for cause, and a closed credential stays closed:
\* for any number of threads that share one endpoint, in whatever order they take the lock.
THEOREM CallsKeptHolds == Spec => CallsKept
<1>1. TypeOK /\ CallsInv /\ [Next]_vars => TypeOK' /\ CallsInv'
  BY TypeStep, LockStep, TokenStep, PostsStep, QuotaStep, BodyStep DEF CallsInv
<1>2. Spec => [](TypeOK /\ CallsInv)
  BY <1>1, InitType, InitInv, PTL DEF Spec
<1>3. Spec => [](QuotaKept /\ RetryFresh /\ BodyKept)
  BY <1>2, InvMeans, PTL
<1>4. Spec => AskedForCause
  BY <1>2, AskStep, PTL DEF Spec, AskedForCause
<1>5. Spec => ClosedStays
  BY <1>2, CloseStep, PTL DEF Spec, ClosedStays
<1> QED BY <1>3, <1>4, <1>5, PTL DEF CallsKept

-----------------------------------------------------------------------------
(* The file of holds and counts (Pacing), for any runs, loops, limits and  *)
(* lengths of a day.                                                       *)

Counts == [Loops -> [Pace!Days -> Nat]]
PaceSteps == {"pending", "launch", "counting", "turn", "over", "holding", "waiting", "ok", "failed", "lost"}
PaceEnds == {"ok", "bad", "silent", "dropped", "none"}
PaceTyped ==
  /\ {now, window, hold, told} \subseteq Nat /\ paceLimited \in [Runs -> Nat]
  /\ paceTurns \in Counts /\ counted \in Counts /\ loopOf \in [Runs -> Loops]
  /\ pacePc \in [Runs -> PaceSteps] /\ retries \in [Runs -> Nat] /\ plain \in [Runs -> Nat]
  /\ mem = [r \in Runs |-> mem[r]] /\ ended \in [Runs -> PaceEnds]
\* A worker that is to write the file has the lock, and has read what is in the file.
PaceLocked ==
  \A r \in Runs :
    /\ pacePc[r] \in {"counting", "holding"} => flock = r
    /\ flock = r => mem[r].hold = hold /\ mem[r].turns = paceTurns
SameCount(f, g) ==
  \A d \in Pace!Days : /\ IsFiniteSet(Pace!TurnsOf(f, d)) /\ IsFiniteSet(Pace!TurnsOf(g, d))
                       /\ Cardinality(Pace!TurnsOf(f, d)) = Cardinality(Pace!TurnsOf(g, d))
\* A retry is spent by every end that may be retried, but for a failed process in a window.
PaceSpent == \A r \in Runs : /\ retries[r] = plain[r]
                             /\ pacePc[r] = "failed" => ended[r] = "dropped" \/ plain[r] >= MaxRetries
PaceInv == PaceTyped /\ PaceLocked /\ hold >= told /\ SameCount(paceTurns, counted) /\ PaceSpent

LEMMA PaceConstants == NoOne \notin Runs /\ LoopOfAll \in [Runs -> Loops] /\ MaxRetries \in Nat
<1>1. Pace!PacingAssumption
  BY WorkersAssumption
<1> QED
  BY <1>1 DEF Pace!PacingAssumption

LEMMA MaxOfTwo ==
  ASSUME NEW a \in Nat, NEW b \in Nat
  PROVE  Pace!Max({a, b}) \in {a, b} /\ Pace!Max({a, b}) >= a /\ Pace!Max({a, b}) >= b
<1>1. \E m \in {a, b} : \A y \in {a, b} : m >= y
  <2>1. CASE a >= b
    BY <2>1
  <2>2. CASE b >= a
    BY <2>2
  <2> QED
    BY <2>1, <2>2
<1> QED
  BY <1>1 DEF Pace!Max

LEMMA TurnOf ==
  ASSUME NEW f, NEW d
  PROVE  \A x : x \in Pace!TurnsOf(f, d) <=> \E l \in Loops : \E i \in 1 .. f[l][d] : x = <<l, i>>
BY DEF Pace!TurnsOf

\* One more turn of a loop on a day is one more turn of that day, and of no other.
LEMMA AddOne ==
  ASSUME NEW f \in Counts, NEW l \in Loops, NEW e, NEW d \in Pace!Days
  PROVE  LET g == [f EXCEPT ![l][e] = @ + 1] IN
         /\ g \in Counts
         /\ \A k \in Loops : g[k][d] = IF k = l /\ d = e THEN f[k][d] + 1 ELSE f[k][d]
<1> DEFINE g == [f EXCEPT ![l][e] = @ + 1]
<1>1. g \in Counts
  <2>1. f[l] \in [Pace!Days -> Nat]
    BY DEF Counts
  <2>2. [f[l] EXCEPT ![e] = @ + 1] \in [Pace!Days -> Nat]
    <3>1. \A x \in Pace!Days : f[l][x] \in Nat /\ f[l][x] + 1 \in Nat
      BY <2>1
    <3> QED
      BY <2>1, <3>1
  <2>3. g = [f EXCEPT ![l] = [f[l] EXCEPT ![e] = @ + 1]]
    OBVIOUS
  <2>4. \A x \in [Pace!Days -> Nat] : [f EXCEPT ![l] = x] \in [Loops -> [Pace!Days -> Nat]]
    BY DEF Counts
  <2> QED
    BY <2>2, <2>3, <2>4 DEF Counts
<1>2. \A k \in Loops : g[k][d] = IF k = l /\ d = e THEN f[k][d] + 1 ELSE f[k][d]
  BY DEF Counts
<1> QED
  BY <1>1, <1>2

LEMMA CountOne ==
  ASSUME NEW f \in Counts, NEW g \in Counts, NEW l \in Loops, NEW d \in Pace!Days,
         g[l][d] = f[l][d] + 1, \A k \in Loops \ {l} : g[k][d] = f[k][d],
         IsFiniteSet(Pace!TurnsOf(f, d))
  PROVE  /\ IsFiniteSet(Pace!TurnsOf(g, d))
         /\ Cardinality(Pace!TurnsOf(g, d)) = Cardinality(Pace!TurnsOf(f, d)) + 1
<1> DEFINE n == f[l][d] + 1
<1>1. \A k \in Loops : f[k][d] \in Nat
  BY DEF Counts
<1>2. Pace!TurnsOf(g, d) = Pace!TurnsOf(f, d) \cup {<<l, n>>}
  <2>1. \A x : x \in Pace!TurnsOf(g, d) <=> \E k \in Loops : \E i \in 1 .. g[k][d] : x = <<k, i>>
    BY TurnOf
  <2>2. \A x : x \in Pace!TurnsOf(f, d) <=> \E k \in Loops : \E i \in 1 .. f[k][d] : x = <<k, i>>
    BY TurnOf
  <2>3. \A k \in Loops : \A i : i \in 1 .. g[k][d] <=> (i \in 1 .. f[k][d] \/ (k = l /\ i = n))
    BY <1>1
  <2> QED
    BY <2>1, <2>2, <2>3
<1>3. <<l, n>> \notin Pace!TurnsOf(f, d)
  BY <1>1, TurnOf
<1> QED
  BY <1>2, <1>3, FS_AddElement

LEMMA CountNone ==
  ASSUME NEW f, NEW g, NEW d, \A k \in Loops : g[k][d] = f[k][d]
  PROVE  Pace!TurnsOf(g, d) = Pace!TurnsOf(f, d)
BY DEF Pace!TurnsOf

LEMMA CountBoth ==
  ASSUME NEW f \in Counts, NEW g \in Counts, SameCount(f, g), NEW l \in Loops, NEW e
  PROVE  /\ [f EXCEPT ![l][e] = @ + 1] \in Counts /\ [g EXCEPT ![l][e] = @ + 1] \in Counts
         /\ SameCount([f EXCEPT ![l][e] = @ + 1], [g EXCEPT ![l][e] = @ + 1])
<1> DEFINE More(x) == [x EXCEPT ![l][e] = @ + 1]
<1>1. 0 \in Pace!Days
  BY WorkersAssumption DEF Pace!PacingAssumption, Pace!Days
<1>2. ASSUME NEW x \in Counts, NEW d \in Pace!Days, IsFiniteSet(Pace!TurnsOf(x, d))
      PROVE  /\ More(x) \in Counts /\ IsFiniteSet(Pace!TurnsOf(More(x), d))
             /\ Cardinality(Pace!TurnsOf(More(x), d)) = Cardinality(Pace!TurnsOf(x, d)) + (IF d = e THEN 1 ELSE 0)
  <2>1. More(x) \in Counts /\ \A k \in Loops : More(x)[k][d] = IF k = l /\ d = e THEN x[k][d] + 1 ELSE x[k][d]
    BY AddOne
  <2> HIDE DEF More
  <2>2. CASE d = e
    BY <1>2, <2>1, <2>2, CountOne
  <2>3. CASE d # e
    <3>1. Pace!TurnsOf(More(x), d) = Pace!TurnsOf(x, d)
      BY <2>1, <2>3, CountNone
    <3>2. Cardinality(Pace!TurnsOf(x, d)) \in Nat
      BY <1>2, FS_CardinalityType
    <3> QED
      BY <1>2, <2>1, <2>3, <3>1, <3>2
  <2> QED
    BY <2>2, <2>3
<1> HIDE DEF More
<1>3. SameCount(More(f), More(g)) /\ More(f) \in Counts /\ More(g) \in Counts
  BY <1>1, <1>2 DEF SameCount
<1> QED
  BY <1>3 DEF More

\* A rename gives a loop's turns new numbers under the new name, and none is lost.
LEMMA MoveKeeps ==
  ASSUME NEW f \in Counts, NEW a \in Loops, NEW b \in Loops, a # b, NEW d \in Pace!Days, IsFiniteSet(Pace!TurnsOf(f, d))
  PROVE  /\ Pace!Moved(f, a, b) \in Counts /\ IsFiniteSet(Pace!TurnsOf(Pace!Moved(f, a, b), d))
         /\ Cardinality(Pace!TurnsOf(Pace!Moved(f, a, b), d)) = Cardinality(Pace!TurnsOf(f, d))
<1> DEFINE g == Pace!Moved(f, a, b)
           S == Pace!TurnsOf(f, d)
           T == Pace!TurnsOf(g, d)
           h == [x \in S |-> IF x[1] = a THEN <<b, f[b][d] + x[2]>> ELSE x]
<1>1. g \in Counts
  BY DEF Pace!Moved, Counts
<1>2. \A k \in Loops : g[k][d] = IF k = a THEN 0 ELSE IF k = b THEN f[a][d] + f[b][d] ELSE f[k][d]
  BY DEF Pace!Moved, Counts
<1>3. \A k \in Loops : f[k][d] \in Nat
  BY DEF Counts
<1> HIDE DEF g
<1>4. \A x : x \in S <=> \E k \in Loops : \E i \in 1 .. f[k][d] : x = <<k, i>>
  BY TurnOf
<1>5. \A x : x \in T <=> \E k \in Loops : \E i \in 1 .. g[k][d] : x = <<k, i>>
  BY TurnOf
<1> HIDE DEF S, T
<1>6. ASSUME NEW x \in S PROVE h[x] \in T
  <2>1a. PICK k \in Loops : \E i \in 1 .. f[k][d] : x = <<k, i>>
    BY <1>4
  <2>1. PICK i \in 1 .. f[k][d] : x = <<k, i>>
    BY <2>1a
  <2>2. CASE k = a
    <3>1. h[x] = <<b, f[b][d] + i>> /\ f[b][d] + i \in 1 .. g[b][d]
      BY <1>2, <1>3, <2>1, <2>2
    <3> QED
      BY <1>5, <3>1
  <2>3. CASE k # a
    <3>1. h[x] = <<k, i>> /\ i \in 1 .. g[k][d]
      BY <1>2, <1>3, <2>1, <2>3
    <3> QED
      BY <1>5, <3>1
  <2> QED
    BY <2>2, <2>3
<1>7. ASSUME NEW x \in S, NEW y \in S, h[x] = h[y] PROVE x = y
  <2>1a. PICK k \in Loops : \E i \in 1 .. f[k][d] : x = <<k, i>>
    BY <1>4
  <2>1. PICK i \in 1 .. f[k][d] : x = <<k, i>>
    BY <2>1a
  <2>2a. PICK m \in Loops : \E j \in 1 .. f[m][d] : y = <<m, j>>
    BY <1>4
  <2>2. PICK j \in 1 .. f[m][d] : y = <<m, j>>
    BY <2>2a
  <2>3. h[x] = (IF k = a THEN <<b, f[b][d] + i>> ELSE <<k, i>>) /\ h[y] = IF m = a THEN <<b, f[b][d] + j>> ELSE <<m, j>>
    BY <2>1, <2>2
  <2> QED
    BY <1>3, <1>7, <2>1, <2>2, <2>3
<1>8. ASSUME NEW y \in T PROVE \E x \in S : h[x] = y
  <2>1a. PICK k \in Loops : \E i \in 1 .. g[k][d] : y = <<k, i>>
    BY <1>5
  <2>1. PICK i \in 1 .. g[k][d] : y = <<k, i>>
    BY <2>1a
  <2>2. k # a
    BY <1>2, <2>1
  <2>3. CASE k = b /\ i > f[b][d]
    <3>1. i - f[b][d] \in 1 .. f[a][d] /\ <<a, i - f[b][d]>> \in S
      BY <1>2, <1>3, <1>4, <2>1, <2>3
    <3>2. h[<<a, i - f[b][d]>>] = <<b, f[b][d] + (i - f[b][d])>>
      BY <3>1
    <3>3. f[b][d] + (i - f[b][d]) = i
      BY <1>3, <2>1
    <3> QED
      BY <2>1, <2>3, <3>1, <3>2, <3>3
  <2>4. CASE ~(k = b /\ i > f[b][d])
    <3>1. i \in 1 .. f[k][d]
      BY <1>2, <1>3, <2>1, <2>2, <2>4
    <3>2. y \in S /\ h[y] = y
      BY <1>4, <2>1, <2>2, <3>1
    <3> QED
      BY <3>2
  <2> QED
    BY <2>3, <2>4
<1>9. h \in Bijection(S, T)
  <2>1. h \in [S -> T]
    BY <1>6
  <2> HIDE DEF h
  <2> QED
    BY <1>7, <1>8, <2>1 DEF Bijection, Injection, Surjection, IsInjective
<1>10. IsFiniteSet(S)
  BY DEF S
<1>11. IsFiniteSet(T) /\ Cardinality(T) = Cardinality(S)
  BY <1>9, <1>10, FS_Bijection DEF ExistsBijection
<1> QED
  BY <1>1, <1>11 DEF S, T, g
LEMMA PaceInit == PartInit => PaceInv
<1> SUFFICES ASSUME PartInit PROVE PaceInv
  OBVIOUS
<1> USE PaceConstants
<1>1. Pace!Init
  BY DEF PartInit
<1>2. PaceTyped
  BY <1>1 DEF Pace!Init, PaceTyped, Counts, PaceSteps, PaceEnds
<1>3. PaceLocked
  BY <1>1 DEF Pace!Init, PaceLocked
<1>4. SameCount(paceTurns, counted)
  <2>1. counted = paceTurns
    BY <1>1 DEF Pace!Init
  <2>2. ASSUME NEW d \in Pace!Days PROVE IsFiniteSet(Pace!TurnsOf(paceTurns, d))
    <3>1. \A l \in Loops : paceTurns[l][d] = 0
      BY <1>1 DEF Pace!Init
    <3>2. Pace!TurnsOf(paceTurns, d) = {}
      BY <3>1, TurnOf
    <3> QED
      BY <3>2, FS_EmptySet
  <2> QED
    BY <2>1, <2>2 DEF SameCount
<1>5. hold >= told /\ PaceSpent
  BY <1>1 DEF Pace!Init, PaceSpent
<1> QED
  BY <1>2, <1>3, <1>4, <1>5 DEF PaceInv

\* A step that leaves the file, the history and the retries alone.
LEMMA PaceQuiet ==
  ASSUME PaceInv, UNCHANGED <<hold, paceTurns, counted, told, retries, plain, loopOf>>,
         {now', window'} \subseteq Nat, paceLimited' \in [Runs -> Nat],
         pacePc' \in [Runs -> PaceSteps], mem' = [r \in Runs |-> mem'[r]], PaceLocked',
         ended' \in [Runs -> PaceEnds],
         \A r \in Runs : pacePc'[r] = "failed" => ended'[r] = "dropped" \/ (pacePc[r] = "failed" /\ ended'[r] = ended[r])
  PROVE  PaceInv'
<1>1. PaceTyped'
  BY DEF PaceInv, PaceTyped, Counts
<1>2. SameCount(paceTurns, counted)'
  BY DEF PaceInv, SameCount
<1>3. (hold >= told)' /\ PaceSpent'
  BY DEF PaceInv, PaceSpent
<1> QED
  BY <1>1, <1>2, <1>3 DEF PaceInv

\* A worker takes the lock and reads the file.
LEMMA PaceLoad ==
  ASSUME PaceInv, NEW r \in Runs, NEW from \in {"launch", "over"}, NEW to \in {"counting", "holding"},
         Pace!Load(r), Pace!At(r, from, to)
  PROVE  PaceInv'
<1> USE PaceConstants
<1>1. PaceLocked'
  BY DEF PaceInv, PaceTyped, PaceLocked, Pace!Load, Pace!At, Pace!Seen, Pace!file
<1> QED
  BY <1>1, PaceQuiet DEF PaceInv, PaceTyped, PaceSteps, Pace!Load, Pace!At, Pace!clock, Pace!file, Pace!row, Pace!past

\* It counts the turn in the file that it read, which is the file still.
LEMMA PaceCount ==
  ASSUME PaceInv, NEW r \in Runs, Pace!CountSave(r)
  PROVE  PaceInv'
<1> USE PaceConstants
<1> DEFINE l == loopOf[r]
           e == mem[r].day
<1>1. flock = r /\ mem[r].hold = hold /\ mem[r].turns = paceTurns /\ l \in Loops
  BY DEF PaceInv, PaceTyped, PaceLocked, Pace!CountSave, Pace!At
<1>2. /\ hold' = hold /\ paceTurns' = [paceTurns EXCEPT ![l][e] = @ + 1]
      /\ counted' = [counted EXCEPT ![l][e] = @ + 1]
  BY <1>1 DEF Pace!CountSave
<1>3. paceTurns \in Counts /\ counted \in Counts /\ SameCount(paceTurns, counted)
  BY DEF PaceInv, PaceTyped
<1>4. paceTurns' \in Counts /\ counted' \in Counts /\ SameCount(paceTurns', counted')
  BY <1>1, <1>2, <1>3, CountBoth
<1>5. SameCount(paceTurns, counted)'
  BY <1>4 DEF SameCount
<1>6. PaceTyped'
  <2>1. UNCHANGED <<now, window, hold, told, loopOf, retries, plain, ended>>
    BY <1>2 DEF Pace!CountSave, Pace!clock, Pace!row
  <2>3. paceLimited' \in [Runs -> Nat]
    BY DEF PaceInv, PaceTyped, Pace!CountSave
  <2>4. mem' = [k \in Runs |-> mem'[k]]
    BY DEF PaceInv, PaceTyped, Pace!CountSave, Pace!Unlock
  <2>2. pacePc' \in [Runs -> PaceSteps]
    BY DEF PaceInv, PaceTyped, PaceSteps, Pace!CountSave, Pace!At
  <2> QED
    BY <1>4, <2>1, <2>2, <2>3, <2>4 DEF PaceInv, PaceTyped
<1>7. PaceLocked'
  BY <1>1 DEF PaceInv, PaceTyped, PaceLocked, Pace!CountSave, Pace!At, Pace!Unlock
<1>8. (hold >= told)' /\ PaceSpent'
  BY <1>2 DEF PaceInv, PaceTyped, PaceSpent, Pace!CountSave, Pace!At, Pace!row
<1> QED
  BY <1>5, <1>6, <1>7, <1>8 DEF PaceInv

\* It raises the hold in the file that it read.
LEMMA PaceHold ==
  ASSUME PaceInv, NEW r \in Runs, Pace!HoldSave(r)
  PROVE  PaceInv'
<1> USE PaceConstants
<1>1. flock = r /\ mem[r].hold = hold /\ mem[r].turns = paceTurns
  BY DEF PaceInv, PaceLocked, Pace!HoldSave, Pace!At
<1>2. paceLimited[r] \in Nat /\ hold \in Nat /\ told \in Nat /\ hold >= told
  BY DEF PaceInv, PaceTyped
<1>3. /\ hold' = Pace!Max({hold, paceLimited[r]}) /\ told' = Pace!Max({told, paceLimited[r]})
      /\ paceTurns' = paceTurns /\ counted' = counted
  BY <1>1 DEF Pace!HoldSave
<1>4. hold' \in Nat /\ told' \in Nat /\ hold' >= told'
  <2>1. hold' \in {hold, paceLimited[r]} /\ hold' >= hold /\ hold' >= paceLimited[r]
    BY <1>2, <1>3, MaxOfTwo
  <2>2. told' \in {told, paceLimited[r]}
    BY <1>2, <1>3, MaxOfTwo
  <2> QED
    BY <1>2, <2>1, <2>2
<1>5. PaceTyped'
  BY <1>3, <1>4 DEF PaceInv, PaceTyped, PaceSteps, PaceEnds, Pace!HoldSave, Pace!At, Pace!Unlock, Pace!clock
<1>6. PaceLocked'
  BY <1>1 DEF PaceInv, PaceTyped, PaceLocked, Pace!HoldSave, Pace!At, Pace!Unlock
<1>7. SameCount(paceTurns, counted)'
  BY <1>3 DEF PaceInv, SameCount
<1>8. PaceSpent'
  BY DEF PaceInv, PaceTyped, PaceSpent, Pace!HoldSave, Pace!At
<1> QED
  BY <1>4, <1>5, <1>6, <1>7, <1>8 DEF PaceInv

\* A turn that ended without a window costs a retry, and the last of them the run.
LEMMA PaceFail ==
  ASSUME PaceInv, NEW r \in Runs, Pace!Fail(r)
  PROVE  PaceInv'
<1> USE PaceConstants
<1>1. PaceTyped'
  BY DEF PaceInv, PaceTyped, PaceSteps, PaceEnds, Pace!Fail, Pace!At, Pace!clock, Pace!file
<1>2. PaceLocked'
  BY DEF PaceInv, PaceTyped, PaceLocked, Pace!Fail, Pace!At, Pace!file
<1>3. SameCount(paceTurns, counted)' /\ (hold >= told)'
  BY DEF PaceInv, SameCount, Pace!Fail, Pace!file
<1>4. PaceSpent'
  BY DEF PaceInv, PaceTyped, PaceSpent, Pace!Fail, Pace!At
<1> QED
  BY <1>1, <1>2, <1>3, <1>4 DEF PaceInv

\* A rename happens while no worker holds the lock, into a name that no run has.
LEMMA PaceRename ==
  ASSUME PaceInv, NEW a \in Loops, NEW b \in Loops, Pace!Rename(a, b)
  PROVE  PaceInv'
<1> USE PaceConstants
<1>1. a # b
  BY DEF Pace!Rename
<1>2. paceTurns' = Pace!Moved(paceTurns, a, b) /\ counted' = counted /\ hold' = hold /\ told' = told
  BY DEF Pace!Rename, Pace!past
<1>3. ASSUME NEW d \in Pace!Days
      PROVE  /\ paceTurns' \in Counts
             /\ IsFiniteSet(Pace!TurnsOf(paceTurns', d)) /\ IsFiniteSet(Pace!TurnsOf(counted', d))
             /\ Cardinality(Pace!TurnsOf(paceTurns', d)) = Cardinality(Pace!TurnsOf(counted', d))
  <2>1. /\ paceTurns \in Counts
        /\ IsFiniteSet(Pace!TurnsOf(paceTurns, d)) /\ IsFiniteSet(Pace!TurnsOf(counted, d))
        /\ Cardinality(Pace!TurnsOf(paceTurns, d)) = Cardinality(Pace!TurnsOf(counted, d))
    BY DEF PaceInv, PaceTyped, SameCount
  <2> QED
    BY <1>1, <1>2, <2>1, MoveKeeps
<1>4. 0 \in Pace!Days
  BY WorkersAssumption DEF Pace!PacingAssumption, Pace!Days
<1>5. loopOf' \in [Runs -> Loops]
  BY DEF PaceInv, PaceTyped, Pace!Rename
<1>6. PaceTyped'
  BY <1>2, <1>3, <1>4, <1>5 DEF PaceInv, PaceTyped, Pace!Rename, Pace!clock, Pace!past
<1>7. PaceLocked'
  BY DEF PaceInv, PaceLocked, Pace!Rename
<1>8. SameCount(paceTurns, counted)'
  BY <1>3 DEF SameCount
<1>9. (hold >= told)' /\ PaceSpent'
  BY <1>2 DEF PaceInv, PaceSpent, Pace!Rename, Pace!past
<1> QED
  BY <1>6, <1>7, <1>8, <1>9 DEF PaceInv
LEMMA PaceStep == PaceInv /\ [Pace!Next]_paceVars => PaceInv'
<1> SUFFICES ASSUME PaceInv, [Pace!Next]_paceVars PROVE PaceInv'
  OBVIOUS
<1> USE PaceConstants
<1>1. CASE UNCHANGED paceVars
  <2>1. PaceLocked'
    BY <1>1 DEF PaceInv, PaceLocked, paceVars
  <2> QED
    BY <1>1, <2>1, PaceQuiet DEF PaceInv, PaceTyped, paceVars
<1>2. ASSUME NEW r \in Runs, \/ Pace!Recover(r) \/ Pace!Look(r) \/ Pace!Turn(r) \/ Pace!Bare(r)
                            \/ Pace!Succeed(r) \/ Pace!Drop(r)
      PROVE  PaceInv'
  <2> USE DEF Pace!Recover, Pace!Look, Pace!Waits, Pace!Turn, Pace!Bare, Pace!Finished, Pace!Succeed, Pace!Drop
  <2>1. \E from \in PaceSteps, to \in PaceSteps \ {"counting", "holding"} :
           /\ Pace!At(r, from, to)
           /\ to = "failed" => ended[r] = "dropped" /\ ended' = ended
    BY <1>2 DEF PaceSteps
  <2>2. UNCHANGED <<hold, paceTurns, flock, mem, counted, told, retries, plain, loopOf>>
    BY <1>2 DEF Pace!file, Pace!row, Pace!past
  <2>3. PaceLocked'
    BY <2>1, <2>2 DEF PaceInv, PaceTyped, PaceLocked, Pace!At
  <2>4. {now', window'} \subseteq Nat
    BY <1>2 DEF PaceInv, PaceTyped, Pace!clock
  <2>5. paceLimited' \in [Runs -> Nat]
    BY <1>2 DEF PaceInv, PaceTyped
  <2>6. \E e \in PaceEnds : ended' = [ended EXCEPT ![r] = e] \/ ended' = ended
    BY <1>2 DEF PaceInv, PaceTyped, PaceEnds, Pace!Ends
  <2>7. ended' \in [Runs -> PaceEnds] /\ \A k \in Runs \ {r} : ended'[k] = ended[k]
    BY <2>6 DEF PaceInv, PaceTyped
  <2>8. /\ pacePc' \in [Runs -> PaceSteps]
        /\ \A k \in Runs : pacePc'[k] = "failed" => ended'[k] = "dropped" \/ (pacePc[k] = "failed" /\ ended'[k] = ended[k])
    BY <2>1, <2>7 DEF PaceInv, PaceTyped, Pace!At
  <2> HIDE DEF Pace!Recover, Pace!Look, Pace!Waits, Pace!Turn, Pace!Bare, Pace!Finished, Pace!Succeed, Pace!Drop
  <2> QED
    BY <2>2, <2>3, <2>4, <2>5, <2>7, <2>8, PaceQuiet DEF PaceInv, PaceTyped
<1>3. ASSUME NEW r \in Runs, Pace!CountLoad(r) \/ Pace!HoldLoad(r) PROVE PaceInv'
  BY <1>3, PaceLoad DEF Pace!CountLoad, Pace!HoldLoad
<1>4. ASSUME NEW r \in Runs, Pace!Work(r) PROVE PaceInv'
  BY <1>2, <1>3, <1>4, PaceCount, PaceHold, PaceFail DEF Pace!Work
<1>5. ASSUME NEW r \in Runs, Pace!Die(r) PROVE PaceInv'
  <2>1. PaceLocked'
    BY <1>5 DEF PaceInv, PaceTyped, PaceLocked, Pace!Die, Pace!Unlock, Pace!file
  <2> QED
    BY <1>5, <2>1, PaceQuiet
       DEF PaceInv, PaceTyped, PaceSteps, Pace!Die, Pace!Unlock, Pace!clock, Pace!file, Pace!row
<1>6. CASE Pace!Tick \/ Pace!Shut
  <2>1. PaceLocked'
    BY <1>6 DEF PaceInv, PaceLocked, Pace!Tick, Pace!Shut, Pace!file
  <2>2. {now', window'} \subseteq Nat
    BY <1>6, WorkersAssumption DEF PaceInv, PaceTyped, Pace!Tick, Pace!Shut, Pace!PacingAssumption
  <2> QED
    BY <1>6, <2>1, <2>2, PaceQuiet DEF PaceInv, PaceTyped, Pace!Tick, Pace!Shut, Pace!file, Pace!row, Pace!past
<1> QED
  BY <1>1, <1>4, <1>5, <1>6, PaceRename DEF Pace!Next, paceVars, Pace!vars

\* The account's hold is never before a time that a worker recorded, no counted turn is
\* lost to another writer or a rename, and a run that is not dropped at once (a budget kill, a
\* refusal, a second clean exit without a write) fails only by as many turns as it may have, of
\* which none was a failed process in a window whose end was still to come (a clean exit without
\* a write in such a window does count): for any runs, loops, cap, retries and length of a day.
THEOREM PacingKeptHolds == PartSpec => []PacingKept
<1>1. PaceInv /\ [PartNext]_partVars => PaceInv'
  BY PaceStep DEF PartNext, partVars
<1>2. PaceInv => PacingKept
  <2>1. PaceInv => Pace!HoldLatest
    BY DEF PaceInv, Pace!HoldLatest
  <2>2. ASSUME PaceInv, NEW d \in Pace!Days
        PROVE  Cardinality(Pace!TurnsOf(paceTurns, d)) = Cardinality(Pace!TurnsOf(counted, d))
    BY <2>2 DEF PaceInv, SameCount
  <2>3. PaceInv => Pace!NotSpent
    BY DEF PaceInv, PaceSpent, Pace!NotSpent
  <2>4. PaceInv => Pace!CountsKept
    <3>1. ASSUME NEW S PROVE Pace!Cardinality(S) = Cardinality(S)
      BY DEF Pace!Cardinality, Cardinality
    <3> QED
      BY <2>2, <3>1 DEF Pace!CountsKept
  <2> QED
    BY <2>1, <2>3, <2>4 DEF PacingKept
<1> QED
  BY PaceInit, <1>1, <1>2, PTL DEF PartSpec

-----------------------------------------------------------------------------
(* The destination of a fact (ObserverFeed, where a command that changes it *)
(* and the claims do not overlap), for any facts and destinations.          *)

Open == {"queued", "digesting", "pending", "failed", "uncertain"}
MovedSaid(f) == entry[MovedFeed!Notice(f)].st
MovedTyped ==
  /\ entry \in [MovedFeed!Key -> [st : MovedFeed!Status, tries : Nat, batch : SUBSET FewFacts]]
  /\ send \in [MovedFeed!Key -> [at : {"out", "post", "ok", "unsent", "unsure"}, by : {"gate", "sweep"}, to : Dests]]
  /\ got \in [FewFacts -> [Dests -> Nat]] /\ bound \in [FewFacts -> Dests] /\ old \subseteq FewFacts
  /\ conf \in [on : BOOLEAN, dest : Dests, mute : BOOLEAN] /\ feedCmd \in [at : {"out", "write"}, to : Dests]
  /\ order \in Seq(FewFacts)
\* A claim is on its way only while its outcome is open; only a digest has members, each a
\* fact that was claimed and that is not sent by itself.
MovedSends == \A k \in MovedFeed!Key : send[k].at # "out" => entry[k].st \in {"pending", "uncertain"}
MovedBatch ==
  \A k \in MovedFeed!Key : \A f \in entry[k].batch :
    /\ k[2] = "digest" /\ send[MovedFeed!Notice(f)].at = "out"
    /\ MovedSaid(f) # "failed" /\ (MovedSaid(f) # "none" \/ f \in old)
MovedFresh ==
  \A f \in FewFacts : MovedSaid(f) = "none" /\ f \notin old => \A d \in Dests : got[f][d] = 0
\* What may still be sent was claimed for the destination that the loop has; what is being
\* sent goes to the one that its facts were claimed for.
MovedBound ==
  /\ \A f \in FewFacts : MovedSaid(f) \in Open => bound[f] = conf.dest
  /\ \A k \in MovedFeed!Key : entry[k].st \in Open => \A f \in entry[k].batch : bound[f] = conf.dest
MovedTo == \A k \in MovedFeed!Key : send[k].at # "out" => \A f \in MovedFeed!Members(k) : send[k].to = bound[f]
\* A command that changes the destination has found nothing open.
MovedCmd ==
  feedCmd.at = "write" /\ feedCmd.to # conf.dest => \A k \in MovedFeed!Key : entry[k].st \notin Open
MovedInv == /\ MovedTyped /\ MovedSends /\ MovedBatch /\ MovedFresh /\ MovedBound /\ MovedTo /\ MovedCmd
            /\ MovedFeed!Addressed

LEMMA MovedKeys ==
  /\ \A f \in FewFacts : MovedFeed!Notice(f) \in MovedFeed!Key /\ MovedFeed!Batch(f) \in MovedFeed!Key
  /\ \A f : MovedFeed!Notice(f)[1] = f /\ MovedFeed!Notice(f)[2] = "notice" /\ MovedFeed!Batch(f)[1] = f /\ MovedFeed!Batch(f)[2] = "digest"
  /\ \A k \in MovedFeed!Key : k[1] \in FewFacts /\ (k = MovedFeed!Notice(k[1]) \/ k = MovedFeed!Batch(k[1]))
BY DEF MovedFeed!Key, MovedFeed!Notice, MovedFeed!Batch

LEMMA MovedConstants == Attempts \in Nat /\ FewUrgent \subseteq FewFacts /\ Digest \in BOOLEAN
<1>1. MovedFeed!ObserverFeedAssumption
  BY WorkersAssumption
<1> QED
  BY <1>1 DEF MovedFeed!ObserverFeedAssumption

LEMMA MovedInit == MovedFeed!Init => MovedInv
<1> SUFFICES ASSUME MovedFeed!Init PROVE MovedInv
  OBVIOUS
<1> USE MovedKeys
<1>1. PICK d \in Dests : /\ bound = [f \in FewFacts |-> d] /\ conf = [on |-> TRUE, dest |-> d, mute |-> FALSE]
                         /\ feedCmd = [at |-> "out", to |-> d]
  BY DEF MovedFeed!Init
<1>2. MovedFeed!NoSend \in [at : {"out", "post", "ok", "unsent", "unsure"}, by : {"gate", "sweep"}, to : Dests]
  BY <1>1 DEF MovedFeed!NoSend
<1>3. MovedTyped
  BY <1>1, <1>2 DEF MovedFeed!Init, MovedTyped, MovedFeed!NoEntry, MovedFeed!Status
<1>4. \A k \in MovedFeed!Key : entry[k].st = "none" /\ entry[k].batch = {} /\ send[k].at = "out"
  BY DEF MovedFeed!Init, MovedFeed!NoEntry, MovedFeed!NoSend
<1>5. \A f \in FewFacts : \A e \in Dests : got[f][e] = 0
  BY DEF MovedFeed!Init
<1> QED
  BY <1>1, <1>3, <1>4, <1>5
     DEF MovedInv, MovedSends, MovedBatch, MovedFresh, MovedBound, MovedTo, MovedCmd, MovedSaid, Open, MovedFeed!Addressed

\* A claim is pruned only when it is settled, and a fact whose claim is pruned is never claimed again.
LEMMA MovedPruned ==
  ASSUME MovedTyped, NEW X \in SUBSET MovedFeed!Expirable, MovedFeed!Expired(X)
  PROVE  /\ \A k \in MovedFeed!Key : \/ k \notin X /\ MovedFeed!Pruned(X)[k] = entry[k]
                                     \/ /\ k \in X /\ MovedFeed!Pruned(X)[k] = MovedFeed!NoEntry
                                        /\ entry[k].st \in {"delivered", "failed"}
         /\ MovedFeed!Pruned(X) \in [MovedFeed!Key -> [st : MovedFeed!Status, tries : Nat, batch : SUBSET FewFacts]]
         /\ old' \subseteq FewFacts /\ old \subseteq old'
         /\ \A f \in FewFacts : MovedFeed!Notice(f) \in X => f \in old'
BY MovedKeys DEF MovedTyped, MovedFeed!Expirable, MovedFeed!Expired, MovedFeed!With, MovedFeed!Pruned, MovedFeed!NoEntry, MovedFeed!Status

LEMMA MovedClaims ==
  ASSUME MovedInv, NEW f \in FewFacts, NEW X \in SUBSET MovedFeed!Expirable, MovedFeed!Notify(f, X)
  PROVE  MovedInv'
<1> USE MovedKeys, MovedConstants
<1> DEFINE n == MovedFeed!Notice(f)
<1>1. /\ n \in MovedFeed!Key /\ MovedSaid(f) = "none" /\ f \notin old /\ feedCmd.at = "out" /\ MovedFeed!Expired(X)
      /\ UNCHANGED <<got, conf, feedCmd>> /\ bound' = [bound EXCEPT ![f] = conf.dest]
  BY DEF MovedFeed!Notify, MovedFeed!Claims, MovedFeed!rest, MovedSaid
<1>2. MovedTyped
  BY DEF MovedInv
<1>3. PICK queued \in BOOLEAN :
        /\ entry' = [MovedFeed!Pruned(X) EXCEPT ![n] = [MovedFeed!NoEntry EXCEPT !.st = IF queued THEN "queued" ELSE "pending"]]
        /\ order' = IF queued THEN Append(order, f) ELSE order
        /\ send' = IF queued THEN send ELSE [send EXCEPT ![n] = [at |-> "post", by |-> "gate", to |-> conf.dest]]
  BY DEF MovedFeed!Notify, MovedFeed!Claims
<1> HIDE DEF n
<1>4. \A k \in MovedFeed!Key \ {n} :
        /\ send'[k] = send[k]
        /\ \/ entry'[k] = entry[k]
           \/ k \in X /\ entry'[k] = MovedFeed!NoEntry /\ entry[k].st \in {"delivered", "failed"}
  <2>1. \A k \in MovedFeed!Key \ {n} : entry'[k] = MovedFeed!Pruned(X)[k]
    BY <1>3 DEF MovedFeed!Pruned
  <2>2. \A k \in MovedFeed!Key \ {n} : send'[k] = send[k]
    BY <1>2, <1>3 DEF MovedTyped
  <2> QED
    BY <1>1, <1>2, <2>1, <2>2, MovedPruned
<1>5. /\ entry'[n].st \in {"queued", "pending"} /\ entry'[n].batch = {}
      /\ \/ entry'[n].st = "queued" /\ send'[n] = send[n]
         \/ entry'[n].st = "pending" /\ send'[n].to = conf.dest
  <2>1. n \in DOMAIN MovedFeed!Pruned(X) /\ n \in DOMAIN send
    BY <1>1 DEF MovedInv, MovedTyped, MovedFeed!Pruned
  <2> QED
    BY <1>3, <2>1 DEF MovedFeed!NoEntry
<1>6. send[n].at = "out"
  BY <1>1 DEF MovedInv, MovedSends, MovedSaid, n
<1>7. /\ bound'[f] = conf.dest /\ \A g \in FewFacts \ {f} : bound'[g] = bound[g]
  BY <1>1, <1>2 DEF MovedTyped
<1>8. \A k \in MovedFeed!Key : f \notin entry[k].batch
  BY <1>1 DEF MovedInv, MovedBatch
<1>9. /\ old \subseteq old' /\ \A g \in FewFacts : MovedFeed!Notice(g) \in X => g \in old'
  BY <1>1, <1>2, MovedPruned
<1>10. \A g \in FewFacts \ {f} : MovedFeed!Notice(g) # n
  BY DEF n
<1>11. MovedTyped'
  <2>1. entry' \in [MovedFeed!Key -> [st : MovedFeed!Status, tries : Nat, batch : SUBSET FewFacts]]
    BY <1>1, <1>2, <1>3, MovedPruned DEF MovedFeed!NoEntry, MovedFeed!Status
  <2>2. send' \in [MovedFeed!Key -> [at : {"out", "post", "ok", "unsent", "unsure"}, by : {"gate", "sweep"}, to : Dests]]
    <3>1. conf.dest \in Dests
      BY <1>2 DEF MovedTyped
    <3> QED
      BY <1>1, <1>2, <1>3, <3>1 DEF MovedTyped
  <2>3. order' \in Seq(FewFacts)
    BY <1>2, <1>3 DEF MovedTyped
  <2>4. old' \subseteq FewFacts
    BY <1>1, <1>2, MovedPruned
  <2>5. bound' \in [FewFacts -> Dests]
    BY <1>1, <1>2 DEF MovedTyped
  <2> QED
    BY <1>1, <1>2, <2>1, <2>2, <2>3, <2>4, <2>5 DEF MovedTyped
<1>12. MovedSends'
  BY <1>4, <1>5, <1>6 DEF MovedInv, MovedSends
<1>13. MovedBatch'
  <2>1. ASSUME NEW k \in MovedFeed!Key, NEW g \in entry'[k].batch
        PROVE  /\ k[2] = "digest" /\ send'[MovedFeed!Notice(g)].at = "out"
               /\ MovedSaid(g)' # "failed" /\ (MovedSaid(g)' # "none" \/ g \in old')
    <3>1. k # n /\ entry'[k] = entry[k]
      BY <1>4, <1>5, <2>1 DEF MovedFeed!NoEntry
    <3>2. /\ k[2] = "digest" /\ send[MovedFeed!Notice(g)].at = "out"
          /\ MovedSaid(g) # "failed" /\ (MovedSaid(g) # "none" \/ g \in old) /\ g \in FewFacts /\ g # f
      BY <1>2, <1>8, <2>1, <3>1 DEF MovedInv, MovedBatch, MovedTyped
    <3> QED
      BY <1>4, <1>9, <1>10, <3>2 DEF MovedSaid, MovedFeed!NoEntry
  <2> QED
    BY <2>1 DEF MovedBatch
<1>14. MovedFresh'
  BY <1>1, <1>4, <1>5, <1>9, <1>10 DEF MovedInv, MovedFresh, MovedSaid, n
<1>15. MovedBound'
  <2>1. \A g \in FewFacts : MovedSaid(g)' \in Open => bound'[g] = conf'.dest
    BY <1>1, <1>4, <1>5, <1>7, <1>10 DEF MovedInv, MovedBound, MovedSaid, MovedFeed!NoEntry, Open, n
  <2>2. ASSUME NEW k \in MovedFeed!Key, entry'[k].st \in Open, NEW g \in entry'[k].batch PROVE bound'[g] = conf'.dest
    <3>1. k # n /\ entry'[k] = entry[k]
      BY <1>4, <1>5, <2>2 DEF MovedFeed!NoEntry
    <3>2. g \in FewFacts /\ g # f /\ bound[g] = conf.dest
      BY <1>2, <1>8, <2>2, <3>1 DEF MovedInv, MovedBound, MovedTyped
    <3> QED
      BY <1>1, <1>7, <3>2
  <2> QED
    BY <2>1, <2>2 DEF MovedBound
<1>16. MovedTo'
  <2>1. ASSUME NEW k \in MovedFeed!Key, send'[k].at # "out", NEW g \in MovedFeed!Members(k)'
        PROVE  send'[k].to = bound'[g]
    <3>1. CASE k = n
      <4>1. g = f
        BY <2>1, <3>1 DEF MovedFeed!Members, n
      <4> QED
        BY <1>5, <1>6, <1>7, <2>1, <3>1, <4>1
    <3>2. CASE k # n
      <4>1. send'[k] = send[k] /\ entry'[k] = entry[k] /\ g \in MovedFeed!Members(k)
        BY <1>4, <2>1, <3>2 DEF MovedInv, MovedSends, MovedFeed!Members
      <4>2. g \in FewFacts /\ g # f
        <5>1. CASE k[2] = "digest"
          BY <1>2, <1>8, <4>1, <5>1 DEF MovedFeed!Members, MovedTyped
        <5>2. CASE k[2] # "digest"
          BY <3>2, <4>1, <5>2 DEF MovedFeed!Members, n
        <5> QED
          BY <5>1, <5>2
      <4> QED
        BY <1>7, <2>1, <4>1, <4>2 DEF MovedInv, MovedTo
    <3> QED
      BY <3>1, <3>2
  <2> QED
    BY <2>1 DEF MovedTo
<1>17. MovedCmd'
  BY <1>1 DEF MovedCmd
<1>18. MovedFeed!Addressed'
  BY <1>1, <1>2, <1>7 DEF MovedInv, MovedFresh, MovedFeed!Addressed
<1> QED
  BY <1>11, <1>12, <1>13, <1>14, <1>15, <1>16, <1>17, <1>18 DEF MovedInv

LEMMA MovedFlush ==
  ASSUME MovedInv, NEW X \in SUBSET MovedFeed!Expirable, MovedFeed!Flush(X)
  PROVE  MovedInv'
<1> USE MovedKeys, MovedConstants
<1>1. PICK i \in DOMAIN order :
        LET head == MovedFeed!Batch(order[i]) IN
        /\ feedCmd.at = "out" /\ MovedFeed!Expired(X) /\ UNCHANGED <<order, got, bound, conf, feedCmd>>
        /\ entry' = [k \in MovedFeed!Key |->
             IF k = head THEN [st |-> "pending", tries |-> 0, batch |-> MovedFeed!Queued]
             ELSE IF \E f \in MovedFeed!Queued : k = MovedFeed!Notice(f) THEN [entry[k] EXCEPT !.st = "digesting"]
             ELSE MovedFeed!Pruned(X)[k]]
        /\ send' = [send EXCEPT ![head] = [at |-> "post", by |-> "sweep", to |-> conf.dest]]
        /\ MovedFeed!Pruned(X)[head].st = "none"
  BY DEF MovedFeed!Flush, MovedFeed!rest
<1>2. MovedTyped
  BY DEF MovedInv
<1> DEFINE h == MovedFeed!Batch(order[i])
           Q == MovedFeed!Queued
<1>3. order[i] \in FewFacts /\ h \in MovedFeed!Key /\ h[2] = "digest"
  BY <1>1, <1>2 DEF MovedTyped
<1>4. /\ \A f \in Q : f \in FewFacts /\ MovedSaid(f) = "queued"
      /\ \A f \in FewFacts \ Q : MovedSaid(f) # "queued"
  BY DEF MovedFeed!Queued, MovedSaid
<1> HIDE DEF h, Q
<1>5. /\ old' \subseteq FewFacts /\ old \subseteq old'
      /\ \A g \in FewFacts : MovedFeed!Notice(g) \in X => g \in old'
  BY <1>1, <1>2, MovedPruned
<1>6. \A k \in MovedFeed!Key \ {h} : send'[k] = send[k]
  BY <1>1, <1>2 DEF MovedTyped, h
<1>7. entry'[h] = [st |-> "pending", tries |-> 0, batch |-> Q] /\ send'[h] = [at |-> "post", by |-> "sweep", to |-> conf.dest]
  BY <1>1, <1>2, <1>3 DEF MovedTyped, h, Q
<1>8. \A f \in Q : entry'[MovedFeed!Notice(f)] = [entry[MovedFeed!Notice(f)] EXCEPT !.st = "digesting"]
  BY <1>1, <1>3, <1>4 DEF h, Q
<1>9. \A k \in MovedFeed!Key : k # h /\ (\A f \in Q : k # MovedFeed!Notice(f)) =>
        \/ entry'[k] = entry[k]
        \/ k \in X /\ entry'[k] = MovedFeed!NoEntry /\ entry[k].st \in {"delivered", "failed"}
  <2>1. \A k \in MovedFeed!Key : k # h /\ (\A f \in Q : k # MovedFeed!Notice(f)) => entry'[k] = MovedFeed!Pruned(X)[k]
    BY <1>1 DEF h, Q
  <2>2. \A k \in MovedFeed!Key :
          \/ MovedFeed!Pruned(X)[k] = entry[k]
          \/ k \in X /\ MovedFeed!Pruned(X)[k] = MovedFeed!NoEntry /\ entry[k].st \in {"delivered", "failed"}
    BY <1>1, <1>2, MovedPruned
  <2> QED
    BY <2>1, <2>2
<1>8a. ASSUME NEW f \in Q
      PROVE  /\ entry'[MovedFeed!Notice(f)] \in [st : MovedFeed!Status, tries : Nat, batch : SUBSET FewFacts]
             /\ entry'[MovedFeed!Notice(f)].st = "digesting"
             /\ entry'[MovedFeed!Notice(f)].batch = entry[MovedFeed!Notice(f)].batch
  <2>1. entry[MovedFeed!Notice(f)] \in [st : MovedFeed!Status, tries : Nat, batch : SUBSET FewFacts]
    BY <1>2, <1>4 DEF MovedTyped
  <2>2. "digesting" \in MovedFeed!Status
    BY DEF MovedFeed!Status
  <2> DEFINE e == entry[MovedFeed!Notice(f)]
  <2>3. entry'[MovedFeed!Notice(f)] = [e EXCEPT !.st = "digesting"]
    BY <1>8
  <2> HIDE DEF e
  <2>4. /\ [e EXCEPT !.st = "digesting"] \in [st : MovedFeed!Status, tries : Nat, batch : SUBSET FewFacts]
        /\ [e EXCEPT !.st = "digesting"].st = "digesting" /\ [e EXCEPT !.st = "digesting"].batch = e.batch
    BY <2>1, <2>2 DEF e
  <2> QED
    BY <2>3, <2>4 DEF e
<1>10. \A k \in MovedFeed!Key \ {h} : entry'[k].batch \in {entry[k].batch, {}}
  BY <1>4, <1>9, <1>8a DEF MovedFeed!NoEntry
<1>11. \A f \in FewFacts : /\ f \in Q => MovedSaid(f)' = "digesting"
                           /\ f \notin Q => MovedSaid(f)' = MovedSaid(f) \/ (MovedSaid(f)' = "none" /\ f \in old')
  <2>1. \A f \in Q : MovedSaid(f)' = "digesting"
    BY <1>8a DEF MovedSaid
  <2>2. ASSUME NEW f \in FewFacts \ Q PROVE MovedSaid(f)' = MovedSaid(f) \/ (MovedSaid(f)' = "none" /\ f \in old')
    <3>1. MovedFeed!Notice(f) # h /\ \A g \in Q : MovedFeed!Notice(f) # MovedFeed!Notice(g)
      BY <1>3
    <3> QED
      BY <1>5, <1>9, <3>1 DEF MovedSaid, MovedFeed!NoEntry
  <2> QED
    BY <2>1, <2>2
<1>12. MovedTyped'
  <2>1. entry' \in [MovedFeed!Key -> [st : MovedFeed!Status, tries : Nat, batch : SUBSET FewFacts]]
    <3>1. ASSUME NEW k \in MovedFeed!Key PROVE entry'[k] \in [st : MovedFeed!Status, tries : Nat, batch : SUBSET FewFacts]
      <4>1. CASE k = h
        BY <1>4, <1>7, <4>1 DEF MovedFeed!Status
      <4>2. CASE \E f \in Q : k = MovedFeed!Notice(f)
        BY <1>8a, <4>2
      <4>3. CASE k # h /\ (\A f \in Q : k # MovedFeed!Notice(f))
        <5>1. entry[k] \in [st : MovedFeed!Status, tries : Nat, batch : SUBSET FewFacts]
          BY <1>2 DEF MovedTyped
        <5>2. MovedFeed!NoEntry \in [st : MovedFeed!Status, tries : Nat, batch : SUBSET FewFacts]
          BY DEF MovedFeed!NoEntry, MovedFeed!Status
        <5> QED
          BY <1>9, <4>3, <5>1, <5>2
      <4> QED
        BY <4>1, <4>2, <4>3
    <3> QED
      BY <1>1, <3>1
  <2>2. conf.dest \in Dests
    BY <1>2 DEF MovedTyped
  <2>3. send' \in [MovedFeed!Key -> [at : {"out", "post", "ok", "unsent", "unsure"}, by : {"gate", "sweep"}, to : Dests]]
    BY <1>1, <1>2, <2>2 DEF MovedTyped
  <2> QED
    BY <1>1, <1>2, <1>5, <2>1, <2>3 DEF MovedTyped
<1>13. \A f \in Q : send'[MovedFeed!Notice(f)].at = "out"
  BY <1>3, <1>4, <1>6 DEF MovedInv, MovedSends, MovedSaid
<1>14. MovedSends'
  <2>1. ASSUME NEW k \in MovedFeed!Key, send'[k].at # "out" PROVE entry'[k].st \in {"pending", "uncertain"}
    <3>1. CASE k = h
      BY <1>7, <3>1
    <3>2. CASE k # h
      BY <1>6, <1>9, <1>13, <2>1, <3>2 DEF MovedInv, MovedSends
    <3> QED
      BY <3>1, <3>2
  <2> QED
    BY <2>1 DEF MovedSends
<1>15. MovedBatch'
  <2>1. ASSUME NEW k \in MovedFeed!Key, NEW g \in entry'[k].batch
        PROVE  /\ k[2] = "digest" /\ send'[MovedFeed!Notice(g)].at = "out"
               /\ MovedSaid(g)' # "failed" /\ (MovedSaid(g)' # "none" \/ g \in old')
    <3>1. CASE k = h
      BY <1>3, <1>4, <1>7, <1>11, <1>13, <2>1, <3>1
    <3>2. CASE k # h
      <4>1. g \in FewFacts /\ g \in entry[k].batch
        BY <1>2, <1>10, <2>1, <3>2 DEF MovedTyped
      <4>2. /\ k[2] = "digest" /\ send[MovedFeed!Notice(g)].at = "out"
            /\ MovedSaid(g) # "failed" /\ (MovedSaid(g) # "none" \/ g \in old)
        BY <4>1 DEF MovedInv, MovedBatch
      <4>3. MovedFeed!Notice(g) # h
        BY <1>3
      <4> QED
        BY <1>5, <1>6, <1>11, <4>1, <4>2, <4>3
    <3> QED
      BY <3>1, <3>2
  <2> QED
    BY <2>1 DEF MovedBatch
<1>16. MovedFresh'
  BY <1>1, <1>5, <1>11 DEF MovedInv, MovedFresh
<1>17. MovedBound'
  <2>1. \A g \in FewFacts : MovedSaid(g)' \in Open => bound'[g] = conf'.dest
    BY <1>1, <1>4, <1>11 DEF MovedInv, MovedBound, Open
  <2>2. ASSUME NEW k \in MovedFeed!Key, entry'[k].st \in Open, NEW g \in entry'[k].batch PROVE bound'[g] = conf'.dest
    <3>1. CASE k = h
      BY <1>1, <1>4, <1>7, <2>2, <3>1 DEF MovedInv, MovedBound, Open
    <3>2. CASE k # h
      <4>1. entry'[k] = entry[k]
        BY <1>4, <1>9, <1>10, <2>2, <3>2 DEF MovedInv, MovedBatch, MovedFeed!NoEntry
      <4> QED
        BY <1>1, <2>2, <4>1 DEF MovedInv, MovedBound
    <3> QED
      BY <3>1, <3>2
  <2> QED
    BY <2>1, <2>2 DEF MovedBound
<1>18. MovedTo'
  <2>1. ASSUME NEW k \in MovedFeed!Key, send'[k].at # "out", NEW g \in MovedFeed!Members(k)'
        PROVE  send'[k].to = bound'[g]
    <3>1. CASE k = h
      <4>1. g \in Q
        BY <1>3, <1>7, <2>1, <3>1 DEF MovedFeed!Members
      <4> QED
        BY <1>1, <1>4, <1>7, <3>1, <4>1 DEF MovedInv, MovedBound, Open
    <3>2. CASE k # h
      <4>1. send'[k] = send[k] /\ entry'[k] = entry[k]
        BY <1>6, <1>9, <1>13, <2>1, <3>2 DEF MovedInv, MovedSends
      <4>2. g \in MovedFeed!Members(k)
        BY <2>1, <4>1 DEF MovedFeed!Members
      <4> QED
        BY <1>1, <2>1, <4>1, <4>2 DEF MovedInv, MovedTo
    <3> QED
      BY <3>1, <3>2
  <2> QED
    BY <2>1 DEF MovedTo
<1>19. MovedCmd'
  BY <1>1 DEF MovedCmd
<1>20. MovedFeed!Addressed'
  BY <1>1 DEF MovedInv, MovedFeed!Addressed
<1> QED
  BY <1>12, <1>14, <1>15, <1>16, <1>17, <1>18, <1>19, <1>20 DEF MovedInv

\* A step that opens no claim, begins no send and leaves the members of each digest.
LEMMA MovedCloses ==
  ASSUME MovedInv, MovedTyped', UNCHANGED <<got, bound, conf>>, old \subseteq old',
         feedCmd' = feedCmd \/ feedCmd'.at = "out",
         \A k \in MovedFeed!Key :
           /\ entry'[k].st \in Open => entry[k].st \in Open
           /\ entry'[k].batch = entry[k].batch \/ entry'[k].batch = {}
           /\ entry'[k].st = "none" /\ k[2] = "notice" => entry[k].st = "none" \/ k[1] \in old'
           /\ entry'[k].st = "failed" /\ entry[k].st # "failed" => send[k].at # "out" \/ k[2] = "digest"
           /\ send'[k].at # "out" =>
                /\ entry'[k].st \in {"pending", "uncertain"} /\ entry'[k].batch = entry[k].batch
                /\ \/ send[k].at # "out" /\ send'[k].to = send[k].to
                   \/ entry[k].st = "failed" /\ send'[k].to = conf.dest
  PROVE  MovedInv'
<1> USE MovedKeys
<1>1. MovedTyped
  BY DEF MovedInv
<1>2. MovedSends'
  BY DEF MovedSends
<1>3. MovedBatch'
  <2>1. ASSUME NEW k \in MovedFeed!Key, NEW g \in entry'[k].batch
        PROVE  /\ k[2] = "digest" /\ send'[MovedFeed!Notice(g)].at = "out"
               /\ MovedSaid(g)' # "failed" /\ (MovedSaid(g)' # "none" \/ g \in old')
    <3>1. g \in FewFacts /\ g \in entry[k].batch
      BY <1>1, <2>1 DEF MovedTyped
    <3>2. /\ k[2] = "digest" /\ send[MovedFeed!Notice(g)].at = "out"
          /\ MovedSaid(g) # "failed" /\ (MovedSaid(g) # "none" \/ g \in old)
      BY <3>1 DEF MovedInv, MovedBatch
    <3>3. send'[MovedFeed!Notice(g)].at = "out"
      BY <3>1, <3>2 DEF MovedSaid
    <3>4. MovedSaid(g)' # "failed"
      BY <3>1, <3>2 DEF MovedSaid
    <3>5. MovedSaid(g)' # "none" \/ g \in old'
      BY <3>1, <3>2 DEF MovedSaid
    <3> QED
      BY <3>2, <3>3, <3>4, <3>5
  <2> QED
    BY <2>1 DEF MovedBatch
<1>4. MovedFresh'
  <2>1. ASSUME NEW f \in FewFacts, MovedSaid(f)' = "none", f \notin old' PROVE MovedSaid(f) = "none" /\ f \notin old
    BY <2>1 DEF MovedSaid
  <2> QED
    BY <2>1 DEF MovedInv, MovedFresh
<1>5. MovedBound'
  BY DEF MovedInv, MovedBound, MovedSaid
<1>6. MovedTo'
  <2>1. ASSUME NEW k \in MovedFeed!Key, send'[k].at # "out", NEW g \in MovedFeed!Members(k)'
        PROVE  send'[k].to = bound'[g]
    <3>1. g \in MovedFeed!Members(k)
      BY <2>1 DEF MovedFeed!Members
    <3>2. CASE send[k].at # "out" /\ send'[k].to = send[k].to
      BY <3>1, <3>2 DEF MovedInv, MovedTo
    <3>3. CASE entry[k].st = "failed" /\ send'[k].to = conf.dest
      <4>1. bound[g] = conf.dest
        <5>1. CASE k[2] = "digest"
          BY <3>1, <3>3, <5>1 DEF MovedInv, MovedBound, Open, MovedFeed!Members
        <5>2. CASE k[2] # "digest"
          <6>1. g = k[1] /\ g \in FewFacts /\ k = MovedFeed!Notice(g)
            BY <3>1, <5>2 DEF MovedFeed!Members
          <6> QED
            BY <3>3, <6>1 DEF MovedInv, MovedBound, MovedSaid, Open
        <5> QED
          BY <5>1, <5>2
      <4> QED
        BY <3>3, <4>1
    <3> QED
      BY <2>1, <3>2, <3>3
  <2> QED
    BY <2>1 DEF MovedTo
<1>7. MovedCmd'
  BY DEF MovedInv, MovedCmd
<1>8. MovedFeed!Addressed'
  BY DEF MovedInv, MovedFeed!Addressed
<1> QED
  BY <1>2, <1>3, <1>4, <1>5, <1>6, <1>7, <1>8 DEF MovedInv

LEMMA MovedRetry ==
  ASSUME MovedInv, NEW X \in SUBSET MovedFeed!Expirable, NEW S \in SUBSET MovedFeed!With("pending"), MovedFeed!Retry(S, X)
  PROVE  MovedInv'
<1> USE MovedKeys, MovedConstants
<1> DEFINE again == MovedFeed!Retryable \ X
           Entries == [st : MovedFeed!Status, tries : Nat, batch : SUBSET FewFacts]
<1>1. MovedTyped
  BY DEF MovedInv
<1>2. /\ MovedFeed!Expired(X) /\ UNCHANGED <<order, got, bound, conf, feedCmd>>
      /\ entry' = [k \in MovedFeed!Key |->
           IF k \in S THEN [entry[k] EXCEPT !.st = "uncertain"]
           ELSE IF \E f \in MovedFeed!Stale(S) : k = MovedFeed!Notice(f) THEN [entry[k] EXCEPT !.st = "uncertain"]
           ELSE IF k \in again THEN [entry[k] EXCEPT !.st = "pending"]
           ELSE MovedFeed!Pruned(X)[k]]
      /\ send' = [k \in MovedFeed!Key |-> IF k \in again THEN [at |-> "post", by |-> "sweep", to |-> conf.dest] ELSE send[k]]
  BY DEF MovedFeed!Retry, MovedFeed!rest
<1>3. \A k \in again : k \in MovedFeed!Key /\ entry[k].st = "failed"
  BY DEF MovedFeed!Retryable, MovedFeed!With
<1>4. \A k \in S : k \in MovedFeed!Key /\ entry[k].st = "pending"
  BY DEF MovedFeed!With
<1>5. \A f \in MovedFeed!Stale(S) : f \in FewFacts /\ MovedSaid(f) = "digesting"
  BY DEF MovedFeed!Stale, MovedSaid
<1>6. /\ old' \subseteq FewFacts /\ old \subseteq old'
      /\ \A g \in FewFacts : MovedFeed!Notice(g) \in X => g \in old'
  BY <1>1, <1>2, MovedPruned
<1> HIDE DEF again
<1>7. ASSUME NEW k \in MovedFeed!Key
      PROVE  \/ /\ entry[k].st \in {"pending", "digesting"} /\ k \notin again
                /\ entry'[k] \in Entries /\ entry'[k].st = "uncertain" /\ entry'[k].batch = entry[k].batch
             \/ /\ k \in again /\ entry'[k] \in Entries /\ entry'[k].st = "pending" /\ entry'[k].batch = entry[k].batch
             \/ k \notin again /\ entry'[k] = entry[k]
             \/ k \notin again /\ k \in X /\ entry'[k] = MovedFeed!NoEntry /\ entry[k].st \in {"delivered", "failed"}
  <2> DEFINE e == entry[k]
  <2>1. e \in Entries
    BY <1>1 DEF MovedTyped
  <2>2. \/ /\ entry[k].st \in {"pending", "digesting"} /\ k \notin again /\ entry'[k] = [e EXCEPT !.st = "uncertain"]
        \/ k \in again /\ entry'[k] = [e EXCEPT !.st = "pending"]
        \/ k \notin again /\ entry'[k] = MovedFeed!Pruned(X)[k]
    BY <1>2, <1>3, <1>4, <1>5 DEF MovedSaid
  <2>3. \/ MovedFeed!Pruned(X)[k] = entry[k]
        \/ k \in X /\ MovedFeed!Pruned(X)[k] = MovedFeed!NoEntry /\ entry[k].st \in {"delivered", "failed"}
    BY <1>1, <1>2, MovedPruned
  <2> HIDE DEF e
  <2>4. \A s \in {"uncertain", "pending"} :
          [e EXCEPT !.st = s] \in Entries /\ [e EXCEPT !.st = s].st = s /\ [e EXCEPT !.st = s].batch = e.batch
    BY <2>1 DEF MovedFeed!Status
  <2> QED
    BY <2>2, <2>3, <2>4 DEF e
<1>8. MovedTyped'
  <2>1. entry' \in [MovedFeed!Key -> Entries]
    <3>1. MovedFeed!NoEntry \in Entries
      BY DEF MovedFeed!NoEntry, MovedFeed!Status
    <3>2. \A k \in MovedFeed!Key : entry'[k] \in Entries
      BY <1>1, <1>7, <3>1 DEF MovedTyped
    <3> QED
      BY <1>2, <3>2
  <2>2. conf.dest \in Dests
    BY <1>1 DEF MovedTyped
  <2>3. send' \in [MovedFeed!Key -> [at : {"out", "post", "ok", "unsent", "unsure"}, by : {"gate", "sweep"}, to : Dests]]
    BY <1>1, <1>2, <2>2 DEF MovedTyped
  <2> QED
    BY <1>1, <1>2, <1>6, <2>1, <2>3 DEF MovedTyped
<1>9. ASSUME NEW k \in MovedFeed!Key
      PROVE  /\ entry'[k].st \in Open => entry[k].st \in Open
             /\ entry'[k].batch = entry[k].batch \/ entry'[k].batch = {}
             /\ entry'[k].st = "none" /\ k[2] = "notice" => entry[k].st = "none" \/ k[1] \in old'
             /\ entry'[k].st = "failed" /\ entry[k].st # "failed" => send[k].at # "out" \/ k[2] = "digest"
             /\ send'[k].at # "out" =>
                  /\ entry'[k].st \in {"pending", "uncertain"} /\ entry'[k].batch = entry[k].batch
                  /\ \/ send[k].at # "out" /\ send'[k].to = send[k].to
                     \/ entry[k].st = "failed" /\ send'[k].to = conf.dest
  <2>1. /\ entry'[k].st \in Open => entry[k].st \in Open
        /\ entry'[k].batch = entry[k].batch \/ entry'[k].batch = {}
        /\ entry'[k].st = "failed" => entry[k].st = "failed"
    BY <1>3, <1>7 DEF Open, MovedFeed!NoEntry
  <2>2. entry'[k].st = "none" /\ k[2] = "notice" => entry[k].st = "none" \/ k[1] \in old'
    <3>1. k \in X /\ k[2] = "notice" => k[1] \in old'
      BY <1>6
    <3> QED
      BY <1>7, <3>1
  <2>3. CASE k \in again
    BY <1>2, <1>3, <1>7, <2>1, <2>2, <2>3
  <2>4. CASE k \notin again
    <3>1. send'[k] = send[k]
      BY <1>2, <2>4
    <3>2. send'[k].at # "out" => entry'[k].st \in {"pending", "uncertain"} /\ entry'[k].batch = entry[k].batch
      BY <1>7, <2>4, <3>1 DEF MovedInv, MovedSends
    <3> QED
      BY <2>1, <2>2, <3>1, <3>2
  <2> QED
    BY <2>3, <2>4
<1> QED
  BY <1>2, <1>6, <1>8, <1>9, MovedCloses

LEMMA MovedReceipt ==
  ASSUME MovedInv, NEW k \in MovedFeed!Key, entry[k].st = "pending", MovedFeed!ReceiptAny(k)
  PROVE  MovedInv'
<1> USE MovedKeys, MovedConstants
<1> DEFINE Entries == [st : MovedFeed!Status, tries : Nat, batch : SUBSET FewFacts]
           s == MovedFeed!Ended(k)
           e == entry[k]
<1>1. MovedTyped
  BY DEF MovedInv
<1>2. /\ UNCHANGED <<order, got, bound, old, conf, feedCmd>>
      /\ send' = [send EXCEPT ![k] = MovedFeed!NoSend]
      /\ entry' = [x \in MovedFeed!Key |->
           IF x = k THEN [e EXCEPT !.st = s, !.tries = IF @ = Attempts THEN @ ELSE @ + 1]
           ELSE IF x[2] # "notice" \/ x[1] \notin e.batch \/ entry[x].st = "none" THEN entry[x]
           ELSE IF s = "delivered" THEN [entry[x] EXCEPT !.st = s]
           ELSE IF entry[x].st # "digesting" THEN entry[x]
           ELSE [entry[x] EXCEPT !.st = IF s = "failed" THEN "queued" ELSE s]]
  BY DEF MovedFeed!ReceiptAny, MovedFeed!rest
<1>3. send[k].at # "out" /\ s \in {"delivered", "uncertain", "failed"}
  BY DEF MovedFeed!ReceiptAny, MovedFeed!Ended
<1>4. e \in Entries /\ conf.dest \in Dests
  BY <1>1 DEF MovedTyped
<1> HIDE DEF s, e
<1>5. entry'[k] \in Entries /\ entry'[k].st = s /\ entry'[k].batch = e.batch
  <2>1. [e EXCEPT !.st = s, !.tries = IF @ = Attempts THEN @ ELSE @ + 1] \in Entries
    <3>1. s \in MovedFeed!Status /\ e.tries \in Nat
      BY <1>3, <1>4 DEF MovedFeed!Status
    <3>2. (IF e.tries = Attempts THEN e.tries ELSE e.tries + 1) \in Nat
      BY <3>1
    <3> QED
      BY <1>4, <3>1, <3>2
  <2>2. /\ [e EXCEPT !.st = s, !.tries = IF @ = Attempts THEN @ ELSE @ + 1].st = s
        /\ [e EXCEPT !.st = s, !.tries = IF @ = Attempts THEN @ ELSE @ + 1].batch = e.batch
    BY <1>4
  <2>3. entry'[k] = [e EXCEPT !.st = s, !.tries = IF @ = Attempts THEN @ ELSE @ + 1]
    BY <1>2
  <2> QED
    BY <2>1, <2>2, <2>3
<1>6. ASSUME NEW x \in MovedFeed!Key \ {k}
      PROVE  \/ entry'[x] = entry[x]
             \/ /\ entry'[x] \in Entries /\ entry'[x].batch = entry[x].batch
                /\ x[2] = "notice" /\ x[1] \in e.batch /\ entry[x].st # "none"
                /\ \/ entry'[x].st = "delivered"
                   \/ entry[x].st = "digesting" /\ entry'[x].st \in {"queued", "uncertain"}
  <2> DEFINE y == entry[x]
  <2>1. y \in Entries
    BY <1>1 DEF MovedTyped
  <2>2. \/ entry'[x] = y
        \/ \E t \in {"delivered", "queued", "uncertain"} :
             /\ entry'[x] = [y EXCEPT !.st = t] /\ x[2] = "notice" /\ x[1] \in e.batch /\ entry[x].st # "none"
             /\ t # "delivered" => entry[x].st = "digesting"
    BY <1>2, <1>3
  <2> HIDE DEF y
  <2>3. \A t \in {"delivered", "queued", "uncertain"} :
          [y EXCEPT !.st = t] \in Entries /\ [y EXCEPT !.st = t].st = t /\ [y EXCEPT !.st = t].batch = y.batch
    BY <2>1 DEF MovedFeed!Status
  <2> QED
    BY <2>2, <2>3 DEF y
<1>7. MovedTyped'
  <2>1. ASSUME NEW x \in MovedFeed!Key PROVE entry'[x] \in Entries
    <3>1. entry[x] \in Entries
      BY <1>1 DEF MovedTyped
    <3> QED
      BY <1>5, <1>6, <3>1
  <2>2. entry' \in [MovedFeed!Key -> Entries]
    BY <1>2, <2>1
  <2>3. send' \in [MovedFeed!Key -> [at : {"out", "post", "ok", "unsent", "unsure"}, by : {"gate", "sweep"}, to : Dests]]
    BY <1>1, <1>2, <1>4 DEF MovedTyped, MovedFeed!NoSend
  <2> QED
    BY <1>1, <1>2, <2>2, <2>3 DEF MovedTyped
<1>8. /\ send'[k].at = "out"
      /\ \A x \in MovedFeed!Key \ {k} : send'[x] = send[x]
  BY <1>1, <1>2 DEF MovedTyped, MovedFeed!NoSend
<1>9. ASSUME NEW x \in MovedFeed!Key
      PROVE  /\ entry'[x].st \in Open => entry[x].st \in Open
             /\ entry'[x].batch = entry[x].batch \/ entry'[x].batch = {}
             /\ entry'[x].st = "none" /\ x[2] = "notice" => entry[x].st = "none" \/ x[1] \in old'
             /\ entry'[x].st = "failed" /\ entry[x].st # "failed" => send[x].at # "out" \/ x[2] = "digest"
             /\ send'[x].at # "out" =>
                  /\ entry'[x].st \in {"pending", "uncertain"} /\ entry'[x].batch = entry[x].batch
                  /\ \/ send[x].at # "out" /\ send'[x].to = send[x].to
                     \/ entry[x].st = "failed" /\ send'[x].to = conf.dest
  <2>1. CASE x = k
    BY <1>3, <1>5, <1>8, <2>1 DEF Open, e
  <2>2. CASE x # k
    <3>1. x[2] = "notice" /\ x[1] \in e.batch => send[x].at = "out"
      BY DEF MovedInv, MovedBatch, e
    <3>2. send[x].at # "out" => entry[x].st \in {"pending", "uncertain"}
      BY DEF MovedInv, MovedSends
    <3> QED
      BY <1>6, <1>8, <2>2, <3>1, <3>2 DEF Open
  <2> QED
    BY <2>1, <2>2
<1> QED
  BY <1>2, <1>7, <1>9, MovedCloses

\* A post goes out only to the destination that the loop has, which is the send's own.
LEMMA MovedPost ==
  ASSUME MovedInv, NEW k \in MovedFeed!Key, MovedFeed!Post(k)
  PROVE  MovedInv'
<1> USE MovedKeys
<1>1. MovedTyped
  BY DEF MovedInv
<1>2. UNCHANGED <<entry, order, bound, old, conf, feedCmd>> /\ send[k].at = "post"
  BY DEF MovedFeed!Post, MovedFeed!rest
<1>3. PICK a \in {"unsent", "ok", "unsure"} : send' = [send EXCEPT ![k].at = a]
  BY DEF MovedFeed!Post
<1>4. \A x \in MovedFeed!Key : send'[x].to = send[x].to /\ (send'[x].at # "out" => send[x].at # "out")
  BY <1>1, <1>2, <1>3 DEF MovedTyped
<1>5. got' = got \/ MovedFeed!Arrives(k)
  BY DEF MovedFeed!Post
<1>6. got' \in [FewFacts -> [Dests -> Nat]]
  <2>1. ASSUME NEW f \in FewFacts
        PROVE  [got[f] EXCEPT ![send[k].to] = IF @ = 2 THEN 2 ELSE @ + 1] \in [Dests -> Nat] /\ got[f] \in [Dests -> Nat]
    <3>1. got[f] \in [Dests -> Nat] /\ send[k].to \in Dests
      BY <1>1 DEF MovedTyped
    <3>2. (IF got[f][send[k].to] = 2 THEN 2 ELSE got[f][send[k].to] + 1) \in Nat
      BY <3>1
    <3> QED
      BY <3>1, <3>2
  <2>2. CASE MovedFeed!Arrives(k)
    <3>1. got' = [f \in FewFacts |-> IF f \in MovedFeed!Members(k)
                    THEN [got[f] EXCEPT ![send[k].to] = IF @ = 2 THEN 2 ELSE @ + 1] ELSE got[f]]
      BY <2>2 DEF MovedFeed!Arrives
    <3>2. \A f \in FewFacts : got'[f] \in [Dests -> Nat]
      BY <2>1, <3>1
    <3> QED
      BY <3>1, <3>2
  <2> QED
    BY <1>1, <1>5, <2>2 DEF MovedTyped
<1>7. ASSUME NEW f \in FewFacts, NEW d \in Dests, got'[f][d] # got[f][d]
      PROVE  f \in MovedFeed!Members(k) /\ d = send[k].to
  <2>1. MovedFeed!Arrives(k)
    BY <1>5, <1>7
  <2>2. f \in MovedFeed!Members(k) /\ got'[f] = [got[f] EXCEPT ![send[k].to] = IF @ = 2 THEN 2 ELSE @ + 1]
    BY <1>7, <2>1 DEF MovedFeed!Arrives
  <2>3. got[f] \in [Dests -> Nat]
    BY <1>1 DEF MovedTyped
  <2> QED
    BY <1>7, <2>2, <2>3
<1>8. \A f \in MovedFeed!Members(k) : send[k].to = bound[f]
  BY <1>2 DEF MovedInv, MovedTo
<1>9. \A f \in FewFacts : f \in MovedFeed!Members(k) => MovedSaid(f) # "none" \/ f \in old
  BY <1>2 DEF MovedInv, MovedSends, MovedBatch, MovedSaid, MovedFeed!Members
<1>10. MovedTyped'
  <2>1. send' \in [MovedFeed!Key -> [at : {"out", "post", "ok", "unsent", "unsure"}, by : {"gate", "sweep"}, to : Dests]]
    <3> DEFINE e == send[k]
               Sends == [at : {"out", "post", "ok", "unsent", "unsure"}, by : {"gate", "sweep"}, to : Dests]
    <3>1. e \in Sends /\ send \in [MovedFeed!Key -> Sends]
      BY <1>1 DEF MovedTyped
    <3>2. send' = [send EXCEPT ![k] = [e EXCEPT !.at = a]]
      BY <1>3
    <3> HIDE DEF e
    <3>3. [e EXCEPT !.at = a] \in Sends
      BY <3>1
    <3> QED
      BY <3>1, <3>2, <3>3
  <2> QED
    BY <1>1, <1>2, <1>6, <2>1 DEF MovedTyped
<1>11. MovedFresh'
  BY <1>2, <1>7, <1>9 DEF MovedInv, MovedFresh, MovedSaid
<1>12. MovedTo'
  BY <1>2, <1>4 DEF MovedInv, MovedTo, MovedFeed!Members
<1>13. MovedFeed!Addressed'
  <2>1. ASSUME NEW f \in FewFacts, NEW d \in Dests, got'[f][d] > 0 PROVE d = bound'[f]
    <3>1. CASE got'[f][d] # got[f][d]
      BY <1>2, <1>7, <1>8, <3>1
    <3>2. CASE got'[f][d] = got[f][d]
      BY <1>2, <2>1, <3>2 DEF MovedInv, MovedFeed!Addressed
    <3> QED
      BY <3>1, <3>2
  <2> QED
    BY <2>1 DEF MovedFeed!Addressed
<1>14. MovedSends' /\ MovedBatch'
  BY <1>2, <1>4 DEF MovedInv, MovedSends, MovedBatch, MovedSaid, MovedTyped
<1>15. MovedBound' /\ MovedCmd'
  BY <1>2 DEF MovedInv, MovedBound, MovedCmd, MovedSaid
<1> QED
  BY <1>10, <1>11, <1>12, <1>13, <1>14, <1>15 DEF MovedInv

\* A send that ends or dies without a receipt leaves the ledger alone.
LEMMA MovedEnds ==
  ASSUME MovedInv, UNCHANGED <<entry, order, got, bound, old, conf, feedCmd>>,
         send' \in [MovedFeed!Key -> [at : {"out", "post", "ok", "unsent", "unsure"}, by : {"gate", "sweep"}, to : Dests]],
         \A k \in MovedFeed!Key : send'[k] = send[k] \/ send'[k].at = "out"
  PROVE  MovedInv'
<1>1. MovedTyped'
  BY DEF MovedInv, MovedTyped
<1>2. \A k \in MovedFeed!Key : send'[k].at # "out" => entry[k].st \in {"pending", "uncertain"} /\ send'[k] = send[k]
  BY DEF MovedInv, MovedSends
<1>3. \A k \in MovedFeed!Key : entry'[k].st = "failed" /\ entry[k].st # "failed" => send[k].at # "out" \/ k[2] = "digest"
  OBVIOUS
<1> QED
  BY <1>1, <1>2, <1>3, MovedCloses

LEMMA MovedCommand ==
  ASSUME MovedInv, (\E d \in Dests : MovedFeed!Check(d)) \/ MovedFeed!Write \/ MovedFeed!Disable \/ MovedFeed!Mute
  PROVE  MovedInv'
<1>1. MovedTyped
  BY DEF MovedInv
<1>2. UNCHANGED <<entry, order, send, got, bound, old>>
  BY DEF MovedFeed!Check, MovedFeed!Write, MovedFeed!Disable, MovedFeed!Mute
<1>3. MovedSends' /\ MovedBatch' /\ MovedFresh' /\ MovedTo' /\ MovedFeed!Addressed'
  BY <1>2 DEF MovedInv, MovedSends, MovedBatch, MovedFresh, MovedTo, MovedFeed!Addressed, MovedSaid, MovedFeed!Members
<1>4. MovedTyped'
  <2>1. conf' \in [on : BOOLEAN, dest : Dests, mute : BOOLEAN] /\ feedCmd' \in [at : {"out", "write"}, to : Dests]
    <3>1. ASSUME NEW d \in Dests, MovedFeed!Check(d)
          PROVE  conf' \in [on : BOOLEAN, dest : Dests, mute : BOOLEAN] /\ feedCmd' \in [at : {"out", "write"}, to : Dests]
      BY <1>1, <3>1 DEF MovedTyped, MovedFeed!Check
    <3>2. CASE MovedFeed!Write
      BY <1>1, <3>2 DEF MovedTyped, MovedFeed!Write
    <3>3. CASE MovedFeed!Disable
      BY <1>1, <3>3 DEF MovedTyped, MovedFeed!Disable
    <3>4. CASE MovedFeed!Mute
      BY <1>1, <3>4 DEF MovedTyped, MovedFeed!Mute
    <3> QED
      BY <3>1, <3>2, <3>3, <3>4
  <2> QED
    BY <1>1, <1>2, <2>1 DEF MovedTyped
<1>5. MovedCmd' /\ MovedBound'
  <2>1. ASSUME NEW d \in Dests, MovedFeed!Check(d) PROVE MovedCmd' /\ MovedBound'
    <3>1. conf' = conf /\ (d # conf.dest => \A k \in MovedFeed!Key : entry[k].st \notin Open) /\ feedCmd'.to = d
      BY <2>1 DEF MovedFeed!Check, MovedFeed!Unsettled, Open
    <3> QED
      BY <1>2, <3>1 DEF MovedInv, MovedCmd, MovedBound, MovedSaid
  <2>2. CASE MovedFeed!Write
    <3>1. feedCmd.at = "write" /\ feedCmd'.at = "out" /\ conf'.dest = feedCmd.to
      BY <1>1, <2>2 DEF MovedFeed!Write, MovedTyped
    <3>2. CASE feedCmd.to = conf.dest
      BY <1>2, <3>1, <3>2 DEF MovedInv, MovedCmd, MovedBound, MovedSaid
    <3>3. CASE feedCmd.to # conf.dest
      BY <1>2, <3>1, <3>3, MovedKeys DEF MovedInv, MovedCmd, MovedBound, MovedSaid
    <3> QED
      BY <3>2, <3>3
  <2>3. CASE MovedFeed!Disable \/ MovedFeed!Mute
    <3>1. feedCmd' = feedCmd /\ feedCmd.at = "out" /\ conf'.dest = conf.dest
      BY <1>1, <2>3 DEF MovedFeed!Disable, MovedFeed!Mute, MovedTyped
    <3> QED
      BY <1>2, <3>1 DEF MovedInv, MovedCmd, MovedBound, MovedSaid
  <2> QED
    BY <2>1, <2>2, <2>3
<1> QED
  BY <1>3, <1>4, <1>5 DEF MovedInv

LEMMA MovedStep == MovedInv /\ [MovedFeed!Next]_feedVars => MovedInv'
<1> SUFFICES ASSUME MovedInv, [MovedFeed!Next]_feedVars PROVE MovedInv'
  OBVIOUS
<1>1. MovedTyped
  BY DEF MovedInv
<1>2. MovedFeed!NoSend \in [at : {"out"}, by : {"gate", "sweep"}, to : Dests]
  <2>1. conf.dest \in Dests
    BY <1>1 DEF MovedTyped
  <2> QED
    BY <2>1 DEF MovedFeed!NoSend
<1>3. CASE UNCHANGED feedVars
  <2>1. UNCHANGED <<entry, order, got, bound, old, conf, feedCmd, send>>
    BY <1>3 DEF feedVars
  <2> QED
    BY <1>1, <2>1, MovedEnds DEF MovedTyped
<1>4. ASSUME NEW k \in MovedFeed!Key, MovedFeed!ReceiptLate(k) \/ MovedFeed!DieGate(k) \/ MovedFeed!DieSweep
      PROVE  MovedInv'
  <2>1. UNCHANGED <<entry, order, got, bound, old, conf, feedCmd>>
    BY <1>4 DEF MovedFeed!ReceiptLate, MovedFeed!DieGate, MovedFeed!DieSweep, MovedFeed!rest
  <2>2. /\ \A m \in MovedFeed!Key : send'[m] = send[m] \/ send'[m].at = "out"
        /\ send' \in [MovedFeed!Key -> [at : {"out", "post", "ok", "unsent", "unsure"}, by : {"gate", "sweep"}, to : Dests]]
    <3>1. CASE MovedFeed!ReceiptLate(k) \/ MovedFeed!DieGate(k)
      <4>1. send' = [send EXCEPT ![k] = MovedFeed!NoSend]
        BY <3>1 DEF MovedFeed!ReceiptLate, MovedFeed!DieGate
      <4> QED
        BY <1>1, <1>2, <4>1 DEF MovedTyped
    <3>2. CASE MovedFeed!DieSweep
      <4>1. send' = [m \in MovedFeed!Key |-> IF send[m].by = "sweep" THEN MovedFeed!NoSend ELSE send[m]]
        BY <3>2 DEF MovedFeed!DieSweep
      <4> QED
        BY <1>1, <1>2, <4>1 DEF MovedTyped
    <3> QED
      BY <1>4, <3>1, <3>2
  <2> QED
    BY <2>1, <2>2, MovedEnds
<1>5. ASSUME NEW k \in MovedFeed!Key, MovedFeed!Send(k) PROVE MovedInv'
  BY <1>4, <1>5, MovedPost, MovedReceipt DEF MovedFeed!Send, MovedFeed!Receipt
<1>6. CASE MovedFeed!DieSweep
  <2>1. \E k : k \in MovedFeed!Key
    BY <1>6 DEF MovedFeed!DieSweep, MovedFeed!SweepFree
  <2> QED
    BY <1>4, <1>6, <2>1
<1> QED
  BY <1>3, <1>4, <1>5, <1>6, MovedClaims, MovedFlush, MovedRetry, MovedCommand DEF MovedFeed!Next, feedVars, MovedFeed!vars

-----------------------------------------------------------------------------
(* What the feed says of its facts (ObserverFeed, where commands and claims *)
(* overlap), for any facts, destinations and attempts.                      *)

Said(f) == entry[Feed!Notice(f)].st
Come(f) == \E d \in Dest : got[f][d] # 0
Before(f, g) == \E i \in DOMAIN order : order[i] = f /\ \A j \in DOMAIN order : order[j] = g => i <= j
Entries == [st : Feed!Status, tries : Nat, batch : SUBSET Fact]
Sends == [at : {"out", "post", "ok", "unsent", "unsure"}, by : {"gate", "sweep"}, to : Dest]

FeedTyped ==
  /\ entry \in [Feed!Key -> Entries] /\ send \in [Feed!Key -> Sends]
  /\ order \in Seq(Fact) /\ old \subseteq Fact
  /\ got \in [Fact -> [Dest -> Nat]] /\ conf.dest \in Dest
\* A claim is on its way only while its outcome is open, and of the digests, all of them the
\* sweep's, only one.
FeedSends ==
  /\ \A k \in Feed!Key : send[k].at # "out" =>
       /\ entry[k].st \in {"pending", "uncertain"}
       /\ k[2] = "digest" => send[k].by = "sweep" /\ entry[k].st = "pending"
  /\ \A k, m \in Feed!Key : k[2] = "digest" /\ m[2] = "digest" /\ send[k].at # "out" /\ send[m].at # "out" => k = m
\* A fact is in one digest, whose head was queued no later, is not sent by itself, and has the
\* status that goes with the digest's.
Agree(k, f) ==
  \/ entry[k].st = "pending" /\ Said(f) \in {"digesting", "queued"}
  \/ entry[k].st = "failed" /\ Said(f) = "queued"
  \/ entry[k].st = "uncertain" /\ Said(f) \in {"uncertain", "queued"}
  \/ entry[k].st = "delivered" /\ (Said(f) = "delivered" \/ (Said(f) = "none" /\ f \in old))
FeedMembers ==
  /\ \A k \in Feed!Key : k[2] = "digest" /\ entry[k].st # "none" => k[1] \in entry[k].batch
  /\ \A k \in Feed!Key : \A f \in entry[k].batch :
       /\ k[2] = "digest" /\ send[Feed!Notice(f)].at = "out" /\ Before(k[1], f) /\ Agree(k, f)
       /\ \A m \in Feed!Key : f \in entry[m].batch => m = k
\* A digest with a member in the queue, or on its way, has the head of the queue for its own,
\* and no other digest has a member there: a second digest of the same facts is refused.
Leads(k, f) ==
  /\ Said(f) = "queued" => Said(k[1]) = "queued"
  /\ Said(f) = "queued" \/ send[k].at # "out" =>
       \A g \in Fact : Said(g) = "queued" => Before(k[1], g) /\ \A m \in Feed!Key : g \in entry[m].batch => m = k
FeedQueue == \A k \in Feed!Key : \A f \in entry[k].batch : Leads(k, f)
FeedFresh == \A f \in Fact : Said(f) = "none" /\ f \notin old => ~Come(f) /\ \A i \in DOMAIN order : order[i] # f
\* What is to be posted, or may be again, has not come; what the ledger calls delivered has.
FeedPosts == \A k \in Feed!Key : send[k].at \in {"post", "unsent"} \/ entry[k].st = "failed" =>
                                   \A f \in Feed!Members(k) : ~Come(f)
FeedComes ==
  /\ \A k \in Feed!Key : send[k].at = "ok" => \A f \in Feed!Members(k) : Come(f)
  /\ \A f \in Fact : Said(f) = "delivered" => Come(f)
FeedWaits ==
  /\ \A f \in Fact : Said(f) = "queued" /\ Come(f) =>
       \E k \in Feed!Key : f \in entry[k].batch /\ entry[k].st \in {"pending", "uncertain"}
  /\ \A f \in Fact : Said(f) = "digesting" => \E k \in Feed!Key : f \in entry[k].batch /\ entry[k].st = "pending"
FeedInv == /\ FeedTyped /\ FeedSends /\ FeedMembers /\ FeedQueue /\ FeedFresh /\ FeedPosts /\ FeedComes /\ FeedWaits
           /\ Feed!Once

LEMMA FeedKeys ==
  /\ \A f \in Fact : Feed!Notice(f) \in Feed!Key /\ Feed!Batch(f) \in Feed!Key
  /\ \A f : Feed!Notice(f)[1] = f /\ Feed!Notice(f)[2] = "notice" /\ Feed!Batch(f)[1] = f /\ Feed!Batch(f)[2] = "digest"
  /\ \A k \in Feed!Key : k[1] \in Fact /\ (k = Feed!Notice(k[1]) \/ k = Feed!Batch(k[1]))
BY DEF Feed!Key, Feed!Notice, Feed!Batch

LEMMA FeedConstants == Attempts \in Nat /\ Urgent \subseteq Fact /\ Digest \in BOOLEAN
<1>1. Feed!ObserverFeedAssumption
  BY WorkersAssumption
<1> QED
  BY <1>1 DEF Feed!ObserverFeedAssumption

LEMMA BeforeBoth ==
  ASSUME FeedTyped, NEW f, NEW g, Before(f, g), Before(g, f)
  PROVE  f = g
<1>1. PICK i \in DOMAIN order : order[i] = f /\ \A j \in DOMAIN order : order[j] = g => i <= j
  BY DEF Before
<1>2. PICK j \in DOMAIN order : order[j] = g /\ \A x \in DOMAIN order : order[x] = f => j <= x
  BY DEF Before
<1>3. i \in Nat /\ j \in Nat
  BY DEF FeedTyped
<1>4. i <= j /\ j <= i
  BY <1>1, <1>2
<1>5. i = j
  BY <1>3, <1>4
<1> QED
  BY <1>1, <1>2, <1>5

LEMMA FeedInit == Feed!Init => FeedInv
<1> SUFFICES ASSUME Feed!Init PROVE FeedInv
  OBVIOUS
<1> USE FeedKeys
<1>1. PICK d \in Dest : conf = [on |-> TRUE, dest |-> d, mute |-> FALSE]
  BY DEF Feed!Init
<1>2. Feed!NoSend \in Sends
  BY <1>1 DEF Feed!NoSend, Sends
<1>3. FeedTyped
  BY <1>1, <1>2 DEF Feed!Init, FeedTyped, Feed!NoEntry, Feed!Status, Entries
<1>4. \A k \in Feed!Key : entry[k].st = "none" /\ entry[k].batch = {} /\ send[k].at = "out"
  BY DEF Feed!Init, Feed!NoEntry, Feed!NoSend
<1>5. \A f \in Fact : Said(f) = "none" /\ ~Come(f) /\ \A e \in Dest : got[f][e] = 0
  BY <1>4 DEF Feed!Init, Said, Come
<1>6. DOMAIN order = {}
  BY DEF Feed!Init
<1>7. FeedSends /\ FeedMembers /\ FeedQueue
  BY <1>4 DEF FeedSends, FeedMembers, FeedQueue
<1>8. FeedFresh /\ FeedPosts /\ FeedComes /\ FeedWaits
  BY <1>4, <1>5, <1>6 DEF FeedFresh, FeedPosts, FeedComes, FeedWaits
<1>9. Feed!Once
  BY <1>5 DEF Feed!Once
<1> QED
  BY <1>3, <1>7, <1>8, <1>9 DEF FeedInv

LEMMA FeedPruned ==
  ASSUME FeedTyped, NEW X \in SUBSET Feed!Expirable, Feed!Expired(X)
  PROVE  /\ \A k \in Feed!Key : \/ Feed!Pruned(X)[k] = entry[k]
                                \/ /\ k \in X /\ Feed!Pruned(X)[k] = Feed!NoEntry
                                   /\ entry[k].st \in {"delivered", "failed"}
         /\ Feed!Pruned(X) \in [Feed!Key -> Entries]
         /\ old' \subseteq Fact /\ old \subseteq old'
         /\ \A f \in Fact : Feed!Notice(f) \in X => f \in old'
BY FeedKeys DEF FeedTyped, Feed!Expirable, Feed!Expired, Feed!With, Feed!Pruned, Feed!NoEntry, Feed!Status, Entries

\* A send that ends or dies without a receipt, and a command, leave the ledger alone.
LEMMA FeedQuiet ==
  ASSUME FeedInv, UNCHANGED <<entry, order, got, old>>, conf'.dest \in Dest, send' \in [Feed!Key -> Sends],
         \A k \in Feed!Key : send'[k] = send[k] \/ send'[k].at = "out"
  PROVE  FeedInv'
<1>1. FeedTyped'
  BY DEF FeedInv, FeedTyped
<1>2. FeedSends'
  BY DEF FeedInv, FeedSends
<1>3. \A f : Said(f)' = Said(f) /\ Come(f)' = Come(f)
  BY DEF Said, Come
<1>4. \A f, g : Before(f, g)' = Before(f, g)
  BY DEF Before
<1>5. \A k \in Feed!Key : Feed!Members(k)' = Feed!Members(k)
  BY DEF Feed!Members
<1>6. FeedMembers'
  <2>1. \A k \in Feed!Key : \A f \in entry[k].batch : f \in Fact
    BY DEF FeedInv, FeedTyped, Entries
  <2>2. \A k \in Feed!Key : \A f \in entry[k].batch : Agree(k, f)' = Agree(k, f)
    BY <1>3 DEF Agree
  <2>3. \A f \in Fact : send[Feed!Notice(f)].at = "out" => send'[Feed!Notice(f)].at = "out"
    BY FeedKeys
  <2> QED
    BY <1>4, <2>1, <2>2, <2>3 DEF FeedInv, FeedMembers
<1>7. FeedQueue'
  BY <1>3, <1>4 DEF FeedInv, FeedQueue, Leads
<1>8. FeedFresh'
  BY <1>3 DEF FeedInv, FeedFresh
<1>9. FeedPosts' /\ FeedComes'
  BY <1>3, <1>5 DEF FeedInv, FeedPosts, FeedComes
<1>10. FeedWaits'
  BY <1>3 DEF FeedInv, FeedWaits
<1>11. Feed!Once'
  BY DEF FeedInv, Feed!Once
<1> QED
  BY <1>1, <1>2, <1>6, <1>7, <1>8, <1>9, <1>10, <1>11 DEF FeedInv

LEMMA FeedPost ==
  ASSUME FeedInv, NEW k \in Feed!Key, Feed!Post(k)
  PROVE  FeedInv'
<1> USE FeedKeys
<1>1. FeedTyped
  BY DEF FeedInv
<1>2. UNCHANGED <<entry, order, bound, old, conf, feedCmd>> /\ send[k].at = "post"
  BY DEF Feed!Post, Feed!rest
<1>3. PICK a \in {"unsent", "ok", "unsure"} :
        /\ send' = [send EXCEPT ![k].at = a]
        /\ got' = got \/ (Feed!Arrives(k) /\ a # "unsent" /\ send[k].to \in Dest)
        /\ a = "ok" => Feed!Arrives(k)
  BY <1>1 DEF Feed!Post, FeedTyped
<1>4. send' \in [Feed!Key -> Sends]
  <2> DEFINE e == send[k]
  <2>1. e \in Sends /\ send' = [send EXCEPT ![k] = [e EXCEPT !.at = a]]
    BY <1>1, <1>3 DEF FeedTyped
  <2> HIDE DEF e
  <2>2. [e EXCEPT !.at = a] \in Sends
    BY <2>1 DEF Sends
  <2> QED
    BY <1>1, <2>1, <2>2 DEF FeedTyped
<1>5. /\ send'[k].at = a /\ \A x \in Feed!Key : send'[x].by = send[x].by
      /\ \A x \in Feed!Key \ {k} : send'[x] = send[x]
  BY <1>1, <1>3 DEF FeedTyped, Sends
<1>6. \A f \in Feed!Members(k) : f \in Fact /\ ~Come(f)
  BY <1>1, <1>2 DEF FeedInv, FeedPosts, FeedTyped, Entries, Feed!Members
<1>7. ASSUME NEW f \in Fact
      PROVE  /\ f \notin Feed!Members(k) => got'[f] = got[f]
             /\ \A d \in Dest : got'[f][d] \in Nat /\ (got'[f][d] = got[f][d] \/ (got'[f][d] = 1 /\ got[f][d] = 0))
             /\ got'[f] \in [Dest -> Nat]
  <2>1. got[f] \in [Dest -> Nat]
    BY <1>1 DEF FeedTyped
  <2>2. CASE got' = got
    BY <2>1, <2>2
  <2>3. CASE Feed!Arrives(k) /\ f \notin Feed!Members(k)
    <3>1. got'[f] = got[f]
      BY <2>3 DEF Feed!Arrives
    <3> QED
      BY <2>1, <2>3, <3>1
  <2>4. CASE Feed!Arrives(k) /\ f \in Feed!Members(k)
    <3>1. got'[f] = [got[f] EXCEPT ![send[k].to] = IF @ = 2 THEN 2 ELSE @ + 1]
      BY <2>4 DEF Feed!Arrives
    <3>2. \A d \in Dest : got[f][d] = 0
      BY <1>6, <2>4 DEF Come
    <3>3. got'[f] = [got[f] EXCEPT ![send[k].to] = 1]
      BY <2>1, <3>1, <3>2
    <3>4. got'[f] \in [Dest -> Nat]
      <4> DEFINE g == got[f]
                 t == send[k].to
      <4>1. g \in [Dest -> Nat] /\ got'[f] = [g EXCEPT ![t] = 1]
        BY <2>1, <3>3
      <4> HIDE DEF g, t
      <4>2. got'[f] = [d \in Dest |-> IF d = t THEN 1 ELSE g[d]]
        BY <4>1
      <4>3. \A d \in Dest : (IF d = t THEN 1 ELSE g[d]) \in Nat
        BY <4>1
      <4> QED
        BY <4>2, <4>3
    <3>5. \A d \in Dest : got'[f][d] = IF d = send[k].to THEN 1 ELSE got[f][d]
      BY <2>1, <3>3
    <3> QED
      BY <2>4, <3>2, <3>4, <3>5
  <2> QED
    BY <1>3, <2>2, <2>3, <2>4
<1>8. Feed!Arrives(k) /\ send[k].to \in Dest => \A f \in Feed!Members(k) : Come(f)'
  <2>1. ASSUME Feed!Arrives(k), send[k].to \in Dest, NEW f \in Feed!Members(k) PROVE got'[f][send[k].to] # 0
    <3>1. got[f] \in [Dest -> Nat] /\ f \in Fact
      BY <1>1, <1>6 DEF FeedTyped
    <3>2. got'[f] = [got[f] EXCEPT ![send[k].to] = IF @ = 2 THEN 2 ELSE @ + 1]
      BY <2>1, <3>1 DEF Feed!Arrives
    <3>3. got[f][send[k].to] \in Nat
      BY <2>1, <3>1
    <3> QED
      BY <2>1, <3>1, <3>2, <3>3
  <2> QED
    BY <2>1 DEF Come
<1>9. \A f \in Fact : /\ Come(f) => Come(f)'
                      /\ f \notin Feed!Members(k) => Come(f)' = Come(f)
  BY <1>7 DEF Come
<1>10. \A f : Said(f)' = Said(f)
  BY <1>2 DEF Said
<1>11. \A f, g : Before(f, g)' = Before(f, g)
  BY <1>2 DEF Before
<1>12. \A x \in Feed!Key : Feed!Members(x)' = Feed!Members(x) /\ \A f \in Feed!Members(x) : f \in Fact
  BY <1>1, <1>2 DEF Feed!Members, FeedTyped, Entries
<1>13. \A x \in Feed!Key : send'[x].at # "out" <=> send[x].at # "out"
  BY <1>2, <1>3, <1>5
<1>14. \A f \in Feed!Members(k) : /\ Said(f) # "failed" /\ Said(f) # "none" /\ Said(f) # "delivered"
                                  /\ Said(f) \in {"queued", "digesting"} => f \in entry[k].batch /\ entry[k].st = "pending"
  <2>1. CASE k[2] = "digest"
    BY <1>2, <2>1 DEF FeedInv, FeedSends, FeedMembers, Agree, Feed!Members
  <2>2. CASE k[2] # "digest"
    BY <1>2, <2>2 DEF FeedInv, FeedSends, Said, Feed!Members
  <2> QED
    BY <2>1, <2>2
<1>15. ASSUME NEW x \in Feed!Key, x # k, send[x].at \in {"post", "unsent"} \/ entry[x].st = "failed", NEW f \in Feed!Members(x)
       PROVE  f \notin Feed!Members(k)
  <2>1. CASE x[2] = "digest"
    <3>1. CASE k[2] = "digest"
      BY <1>15, <2>1, <3>1 DEF FeedInv, FeedMembers, Feed!Members
    <3>2. CASE k[2] # "digest"
      BY <1>2, <2>1, <3>2 DEF FeedInv, FeedMembers, Feed!Members
    <3> QED
      BY <3>1, <3>2
  <2>2. CASE x[2] # "digest"
    <3>1. x = Feed!Notice(f) /\ f \in Fact
      BY <2>2 DEF Feed!Members
    <3>2. CASE k[2] = "digest"
      BY <1>14, <1>15, <3>1, <3>2 DEF FeedInv, FeedMembers, Feed!Members, Said
    <3>3. CASE k[2] # "digest"
      BY <1>15, <3>1, <3>3 DEF Feed!Members
    <3> QED
      BY <3>2, <3>3
  <2> QED
    BY <2>1, <2>2
<1>16. FeedTyped'
  <2>1. got' \in [Fact -> [Dest -> Nat]]
    <3>1. got' = got \/ Feed!Arrives(k)
      BY <1>3
    <3> QED
      BY <1>1, <1>7, <3>1 DEF FeedTyped, Feed!Arrives
  <2> QED
    BY <1>1, <1>2, <1>4, <2>1 DEF FeedTyped
<1>17. FeedSends'
  BY <1>2, <1>5, <1>13 DEF FeedInv, FeedSends
<1>18. FeedMembers'
  <2>1. \A x \in Feed!Key : \A f \in entry[x].batch : f \in Fact /\ Agree(x, f)' = Agree(x, f)
    BY <1>1, <1>2, <1>10 DEF Agree, FeedTyped, Entries
  <2>2. \A f \in Fact : send[Feed!Notice(f)].at = "out" => send'[Feed!Notice(f)].at = "out"
    BY <1>13
  <2> QED
    BY <1>2, <1>11, <2>1, <2>2 DEF FeedInv, FeedMembers
<1>19. FeedQueue'
  BY <1>2, <1>10, <1>11, <1>13 DEF FeedInv, FeedQueue, Leads
<1>20. FeedFresh'
  BY <1>2, <1>9, <1>10, <1>14 DEF FeedInv, FeedFresh
<1>21. FeedPosts'
  <2>1. ASSUME NEW x \in Feed!Key, send'[x].at \in {"post", "unsent"} \/ entry'[x].st = "failed", NEW f \in Feed!Members(x)'
        PROVE  ~Come(f)'
    <3>1. CASE x = k
      <4>1. a = "unsent"
        BY <1>2, <1>3, <1>5, <2>1, <3>1 DEF FeedInv, FeedSends
      <4>2. got' = got
        BY <1>3, <4>1
      <4> QED
        BY <1>6, <1>12, <2>1, <3>1, <4>2 DEF Come
    <3>2. CASE x # k
      BY <1>2, <1>5, <1>9, <1>12, <1>15, <2>1, <3>2 DEF FeedInv, FeedPosts
    <3> QED
      BY <3>1, <3>2
  <2> QED
    BY <2>1 DEF FeedPosts
<1>22. FeedComes'
  <2>1. ASSUME NEW x \in Feed!Key, send'[x].at = "ok", NEW f \in Feed!Members(x)' PROVE Come(f)'
    <3>1. CASE x = k
      <4>1. Feed!Arrives(k) /\ send[k].to \in Dest
        BY <1>1, <1>3, <1>5, <2>1, <3>1 DEF FeedTyped, Sends
      <4> QED
        BY <1>8, <1>12, <2>1, <3>1, <4>1
    <3>2. CASE x # k
      BY <1>5, <1>9, <1>12, <2>1, <3>2 DEF FeedInv, FeedComes
    <3> QED
      BY <3>1, <3>2
  <2>2. \A f \in Fact : Said(f)' = "delivered" => Come(f)'
    BY <1>9, <1>10 DEF FeedInv, FeedComes
  <2> QED
    BY <2>1, <2>2 DEF FeedComes
<1>23. FeedWaits'
  <2>1. ASSUME NEW f \in Fact, Said(f)' = "queued", Come(f)'
        PROVE  \E x \in Feed!Key : f \in entry'[x].batch /\ entry'[x].st \in {"pending", "uncertain"}
    <3>1. CASE f \in Feed!Members(k)
      BY <1>2, <1>10, <1>14, <2>1, <3>1
    <3>2. CASE f \notin Feed!Members(k)
      BY <1>2, <1>9, <1>10, <2>1, <3>2 DEF FeedInv, FeedWaits
    <3> QED
      BY <3>1, <3>2
  <2>2. \A f \in Fact : Said(f)' = "digesting" => \E x \in Feed!Key : f \in entry'[x].batch /\ entry'[x].st = "pending"
    BY <1>2, <1>10 DEF FeedInv, FeedWaits
  <2> QED
    BY <2>1, <2>2 DEF FeedWaits
<1>24. Feed!Once'
  BY <1>7 DEF FeedInv, Feed!Once
<1> QED
  BY <1>16, <1>17, <1>18, <1>19, <1>20, <1>21, <1>22, <1>23, <1>24 DEF FeedInv

LEMMA FeedClaims ==
  ASSUME FeedInv, NEW f \in Fact, NEW X \in SUBSET Feed!Expirable, Feed!Notify(f, X)
  PROVE  FeedInv'
<1> USE FeedKeys, FeedConstants
<1> DEFINE n == Feed!Notice(f)
<1>1. /\ n \in Feed!Key /\ Said(f) = "none" /\ f \notin old /\ Feed!Expired(X)
      /\ UNCHANGED <<got, conf, feedCmd>>
  BY DEF Feed!Notify, Feed!Claims, Feed!rest, Said
<1>2. FeedTyped
  BY DEF FeedInv
<1>3. PICK queued \in BOOLEAN :
        /\ entry' = [Feed!Pruned(X) EXCEPT ![n] = [Feed!NoEntry EXCEPT !.st = IF queued THEN "queued" ELSE "pending"]]
        /\ order' = IF queued THEN Append(order, f) ELSE order
        /\ send' = IF queued THEN send ELSE [send EXCEPT ![n] = [at |-> "post", by |-> "gate", to |-> conf.dest]]
  BY DEF Feed!Notify, Feed!Claims
<1>4. n[2] = "notice" /\ send[n].at = "out"
  BY <1>1 DEF FeedInv, FeedSends, Said
<1> HIDE DEF n
<1>5. \A k \in Feed!Key \ {n} :
        /\ send'[k] = send[k]
        /\ \/ entry'[k] = entry[k]
           \/ k \in X /\ entry'[k] = Feed!NoEntry /\ entry[k].st \in {"delivered", "failed"}
  <2>1. \A k \in Feed!Key \ {n} : entry'[k] = Feed!Pruned(X)[k]
    BY <1>3 DEF Feed!Pruned
  <2>2. \A k \in Feed!Key \ {n} : send'[k] = send[k]
    BY <1>2, <1>3 DEF FeedTyped
  <2>3. \A k \in Feed!Key :
          \/ Feed!Pruned(X)[k] = entry[k]
          \/ k \in X /\ Feed!Pruned(X)[k] = Feed!NoEntry /\ entry[k].st \in {"delivered", "failed"}
    BY <1>1, <1>2, FeedPruned
  <2> QED
    BY <2>1, <2>2, <2>3
<1>6. /\ entry'[n].batch = {}
      /\ \/ entry'[n].st = "queued" /\ send'[n] = send[n] /\ order' = Append(order, f)
         \/ entry'[n].st = "pending" /\ send'[n].at = "post" /\ order' = order
  <2>1. n \in DOMAIN Feed!Pruned(X) /\ n \in DOMAIN send
    BY <1>1, <1>2 DEF FeedTyped, Feed!Pruned
  <2> QED
    BY <1>3, <2>1 DEF Feed!NoEntry
<1>7. /\ old' \subseteq Fact /\ old \subseteq old' /\ \A g \in Fact : Feed!Notice(g) \in X => g \in old'
  BY <1>1, <1>2, FeedPruned
<1>8. \A k \in Feed!Key : f \notin entry[k].batch
  BY <1>1 DEF FeedInv, FeedMembers, Agree
<1>9. ~Come(f) /\ \A i \in DOMAIN order : order[i] # f
  BY <1>1 DEF FeedInv, FeedFresh
<1>10. \A g \in Fact \ {f} : /\ Feed!Notice(g) # n
                             /\ \/ Said(g)' = Said(g)
                                \/ Said(g) \in {"delivered", "failed"} /\ Said(g)' = "none" /\ g \in old'
  <2>1. \A g \in Fact \ {f} : Feed!Notice(g) # n
    BY DEF n
  <2> QED
    BY <1>5, <1>7, <2>1 DEF Said, Feed!NoEntry
<1>11. \A k \in Feed!Key : \A g \in entry'[k].batch : /\ k # n /\ entry'[k] = entry[k] /\ send'[k] = send[k]
                                                      /\ g \in entry[k].batch /\ g \in Fact /\ g # f
  <2>1. ASSUME NEW k \in Feed!Key, NEW g \in entry'[k].batch
        PROVE  k # n /\ entry'[k] = entry[k] /\ send'[k] = send[k] /\ g \in entry[k].batch
    BY <1>5, <1>6, <2>1 DEF Feed!NoEntry
  <2> QED
    BY <1>2, <1>8, <2>1 DEF FeedTyped, Entries
<1>12. \A x, y : Before(x, y) => Before(x, y)' /\ Before(x, f)'
  <2>1. ASSUME NEW x, NEW y, Before(x, y) PROVE Before(x, y)' /\ Before(x, f)'
    <3>1. PICK i \in DOMAIN order : order[i] = x /\ \A j \in DOMAIN order : order[j] = y => i <= j
      BY <2>1 DEF Before
    <3>2. CASE order' = order
      BY <1>9, <3>1, <3>2 DEF Before
    <3>3. CASE order' = Append(order, f)
      <4>1. /\ DOMAIN order = 1 .. Len(order) /\ Len(order) \in Nat /\ DOMAIN order' = 1 .. (Len(order) + 1)
            /\ \A j \in 1 .. Len(order) : order'[j] = order[j]
        BY <1>2, <3>3 DEF FeedTyped
      <4>2. i \in DOMAIN order' /\ order'[i] = x
        BY <3>1, <4>1
      <4>3. \A j \in DOMAIN order' : j \in DOMAIN order \/ i <= j
        BY <4>1
      <4> QED
        BY <1>9, <3>1, <4>1, <4>2, <4>3 DEF Before
    <3> QED
      BY <1>6, <3>2, <3>3
  <2> QED
    BY <2>1
<1>13. FeedTyped'
  <2>1. entry' \in [Feed!Key -> Entries]
    <3>1. /\ [Feed!NoEntry EXCEPT !.st = "queued"] \in Entries /\ [Feed!NoEntry EXCEPT !.st = "pending"] \in Entries
      BY DEF Feed!NoEntry, Feed!Status, Entries
    <3>2. Feed!Pruned(X) \in [Feed!Key -> Entries]
      BY <1>1, <1>2, FeedPruned
    <3> QED
      BY <1>1, <1>3, <3>1, <3>2
  <2>2. send' \in [Feed!Key -> Sends]
    BY <1>1, <1>2, <1>3 DEF FeedTyped, Sends
  <2>3. order' \in Seq(Fact)
    BY <1>2, <1>3 DEF FeedTyped
  <2> QED
    BY <1>1, <1>2, <1>7, <2>1, <2>2, <2>3 DEF FeedTyped
<1>14. FeedSends'
  <2>1. ASSUME NEW k \in Feed!Key, send'[k].at # "out"
        PROVE  /\ entry'[k].st \in {"pending", "uncertain"}
               /\ k[2] = "digest" => send'[k].by = "sweep" /\ entry'[k].st = "pending"
    <3>1. CASE k = n
      BY <1>4, <1>6, <2>1, <3>1
    <3>2. CASE k # n
      BY <1>5, <2>1, <3>2 DEF FeedInv, FeedSends
    <3> QED
      BY <3>1, <3>2
  <2>2. \A k \in Feed!Key : k[2] = "digest" => send'[k] = send[k]
    BY <1>4, <1>5
  <2> QED
    BY <2>1, <2>2 DEF FeedInv, FeedSends
<1>15. FeedMembers'
  <2>1. ASSUME NEW k \in Feed!Key, k[2] = "digest", entry'[k].st # "none" PROVE k[1] \in entry'[k].batch
    BY <1>4, <1>5, <2>1 DEF FeedInv, FeedMembers, Feed!NoEntry
  <2>2. ASSUME NEW k \in Feed!Key, NEW g \in entry'[k].batch
        PROVE  /\ k[2] = "digest" /\ send'[Feed!Notice(g)].at = "out" /\ Before(k[1], g)' /\ Agree(k, g)'
               /\ \A m \in Feed!Key : g \in entry'[m].batch => m = k
    <3>1. entry'[k] = entry[k] /\ g \in entry[k].batch /\ g \in Fact /\ g # f
      BY <1>11, <2>2
    <3>2. /\ k[2] = "digest" /\ send[Feed!Notice(g)].at = "out" /\ Before(k[1], g) /\ Agree(k, g)
          /\ \A m \in Feed!Key : g \in entry[m].batch => m = k
      BY <3>1 DEF FeedInv, FeedMembers
    <3>3. Agree(k, g)'
      BY <1>7, <1>10, <3>1, <3>2 DEF Agree
    <3>4. send'[Feed!Notice(g)].at = "out"
      BY <1>5, <1>10, <3>1, <3>2
    <3> QED
      BY <1>11, <1>12, <3>2, <3>3, <3>4
  <2> QED
    BY <2>1, <2>2 DEF FeedMembers
<1>16. FeedQueue'
  <2>1. ASSUME NEW k \in Feed!Key, NEW g \in entry'[k].batch PROVE Leads(k, g)'
    <3>1. entry'[k] = entry[k] /\ send'[k] = send[k] /\ g \in entry[k].batch /\ g \in Fact /\ g # f /\ k[1] \in Fact
      BY <1>11, <2>1
    <3>2. Leads(k, g) /\ Before(k[1], g) /\ k[1] # f
      BY <1>9, <3>1 DEF FeedInv, FeedQueue, FeedMembers, Before
    <3>3. Said(g)' = "queued" => Said(g) = "queued" /\ Said(k[1])' = "queued"
      BY <1>10, <3>1, <3>2 DEF Leads
    <3>4. ASSUME Said(g)' = "queued" \/ send'[k].at # "out", NEW x \in Fact, Said(x)' = "queued"
          PROVE  Before(k[1], x)' /\ \A m \in Feed!Key : x \in entry'[m].batch => m = k
      <4>1. CASE x = f
        BY <1>11, <1>12, <3>2, <4>1
      <4>2. CASE x # f
        <5>1. Said(x) = "queued"
          BY <1>10, <3>4, <4>2
        <5> QED
          BY <1>11, <1>12, <3>1, <3>2, <3>3, <3>4, <5>1 DEF Leads
      <4> QED
        BY <4>1, <4>2
    <3> QED
      BY <3>3, <3>4 DEF Leads
  <2> QED
    BY <2>1 DEF FeedQueue
<1>17. \A g \in Fact : Come(g)' = Come(g)
  BY <1>1 DEF Come
<1>18. Said(f)' \in {"queued", "pending"}
  BY <1>6 DEF Said, n
<1>19. FeedFresh'
  <2>1. ASSUME NEW g \in Fact, Said(g)' = "none", g \notin old' PROVE ~Come(g)' /\ \A i \in DOMAIN order' : order'[i] # g
    <3>1. g # f /\ Said(g) = "none" /\ g \notin old
      BY <1>7, <1>10, <1>18, <2>1
    <3>2. ~Come(g) /\ \A i \in DOMAIN order : order[i] # g
      BY <3>1 DEF FeedInv, FeedFresh
    <3>3. \A i \in DOMAIN order' : order'[i] # g
      <4>1. CASE order' = order
        BY <3>2, <4>1
      <4>2. CASE order' = Append(order, f)
        <5>1. /\ DOMAIN order = 1 .. Len(order) /\ Len(order) \in Nat /\ DOMAIN order' = 1 .. (Len(order) + 1)
              /\ \A j \in 1 .. Len(order) : order'[j] = order[j]
              /\ order'[Len(order) + 1] = f
          BY <1>2, <4>2 DEF FeedTyped
        <5> QED
          BY <3>1, <3>2, <5>1
      <4> QED
        BY <1>6, <4>1, <4>2
    <3> QED
      BY <1>17, <3>2, <3>3
  <2> QED
    BY <2>1 DEF FeedFresh
<1>20. \A k \in Feed!Key \ {n} : entry'[k] = entry[k] => Feed!Members(k)' = Feed!Members(k)
  BY DEF Feed!Members
<1>21. FeedPosts'
  <2>1. ASSUME NEW k \in Feed!Key, send'[k].at \in {"post", "unsent"} \/ entry'[k].st = "failed", NEW g \in Feed!Members(k)'
        PROVE  ~Come(g)'
    <3>1. CASE k = n
      <4>1. g = f
        BY <1>4, <2>1, <3>1 DEF Feed!Members, n
      <4> QED
        BY <1>9, <1>17, <4>1
    <3>2. CASE k # n
      <4>1. entry'[k] = entry[k] /\ send'[k] = send[k]
        BY <1>5, <2>1, <3>2 DEF FeedInv, FeedSends, Feed!NoEntry
      <4>2. ~Come(g) /\ g \in Fact
        BY <1>2, <1>20, <2>1, <3>2, <4>1 DEF FeedInv, FeedPosts, FeedTyped, Entries, Feed!Members
      <4> QED
        BY <1>17, <4>2
    <3> QED
      BY <3>1, <3>2
  <2> QED
    BY <2>1 DEF FeedPosts
<1>22. FeedComes'
  <2>1. ASSUME NEW k \in Feed!Key, send'[k].at = "ok", NEW g \in Feed!Members(k)' PROVE Come(g)'
    <3>1. k # n
      BY <1>4, <1>6, <2>1
    <3>2. entry'[k] = entry[k] /\ send'[k] = send[k]
      BY <1>5, <2>1, <3>1 DEF FeedInv, FeedSends
    <3>3. Come(g) /\ g \in Fact
      BY <1>2, <1>20, <2>1, <3>1, <3>2 DEF FeedInv, FeedComes, FeedTyped, Entries, Feed!Members
    <3> QED
      BY <1>17, <3>3
  <2>2. \A g \in Fact : Said(g)' = "delivered" => Come(g)'
    BY <1>10, <1>17, <1>18 DEF FeedInv, FeedComes
  <2> QED
    BY <2>1, <2>2 DEF FeedComes
<1>23. FeedWaits'
  <2>1. \A k \in Feed!Key : entry[k].st \in {"pending", "uncertain"} /\ entry[k].batch # {} => entry'[k] = entry[k]
    <3>1. entry[n].batch = {}
      BY <1>1, <1>4 DEF FeedInv, FeedMembers
    <3> QED
      BY <1>5, <3>1
  <2>2. \A g \in Fact : Said(g)' = "queued" /\ Come(g)' =>
          \E k \in Feed!Key : g \in entry'[k].batch /\ entry'[k].st \in {"pending", "uncertain"}
    BY <1>9, <1>10, <1>17, <2>1 DEF FeedInv, FeedWaits
  <2>3. \A g \in Fact : Said(g)' = "digesting" => \E k \in Feed!Key : g \in entry'[k].batch /\ entry'[k].st = "pending"
    BY <1>10, <1>18, <2>1 DEF FeedInv, FeedWaits
  <2> QED
    BY <2>2, <2>3 DEF FeedWaits
<1>24. Feed!Once'
  BY <1>1 DEF FeedInv, Feed!Once
<1> QED
  BY <1>13, <1>14, <1>15, <1>16, <1>19, <1>21, <1>22, <1>23, <1>24 DEF FeedInv

LEMMA FeedFlush ==
  ASSUME FeedInv, NEW X \in SUBSET Feed!Expirable, Feed!Flush(X)
  PROVE  FeedInv'
<1> USE FeedKeys, FeedConstants
<1>1. PICK i \in DOMAIN order :
        LET head == Feed!Batch(order[i]) IN
        /\ Feed!SweepFree /\ Feed!Oldest(i) /\ Feed!Expired(X) /\ UNCHANGED <<order, got, bound, conf, feedCmd>>
        /\ entry' = [k \in Feed!Key |->
             IF k = head THEN [st |-> "pending", tries |-> 0, batch |-> Feed!Queued]
             ELSE IF \E f \in Feed!Queued : k = Feed!Notice(f) THEN [entry[k] EXCEPT !.st = "digesting"]
             ELSE Feed!Pruned(X)[k]]
        /\ send' = [send EXCEPT ![head] = [at |-> "post", by |-> "sweep", to |-> conf.dest]]
        /\ Feed!Pruned(X)[head].st = "none"
  BY DEF Feed!Flush, Feed!rest
<1>2. FeedTyped
  BY DEF FeedInv
<1> DEFINE h == order[i]
           H == Feed!Batch(h)
           Q == Feed!Queued
<1>3. h \in Fact /\ H \in Feed!Key /\ H[1] = h /\ H[2] = "digest"
  BY <1>1, <1>2 DEF FeedTyped
<1>4. /\ \A f \in Q : f \in Fact /\ Said(f) = "queued"
      /\ \A f \in Fact \ Q : Said(f) # "queued"
  BY DEF Feed!Queued, Said
<1>5. h \in Q /\ \A f \in Q : Before(h, f)
  <2>1. h \in Q /\ \A j \in 1 .. (i - 1) : order[j] \notin Q
    BY <1>1 DEF Feed!Oldest
  <2>2. DOMAIN order \subseteq Nat /\ \A j \in DOMAIN order : j < i => j \in 1 .. (i - 1)
    BY <1>1, <1>2 DEF FeedTyped
  <2>3. \A j \in DOMAIN order : order[j] \in Q => i <= j
    BY <1>1, <2>1, <2>2
  <2> QED
    BY <1>1, <2>1, <2>3 DEF Before
<1>6. /\ old' \subseteq Fact /\ old \subseteq old' /\ \A g \in Fact : Feed!Notice(g) \in X => g \in old'
  BY <1>1, <1>2, FeedPruned
<1>7. /\ entry'[H] = [st |-> "pending", tries |-> 0, batch |-> Q]
      /\ send'[H] = [at |-> "post", by |-> "sweep", to |-> conf.dest]
      /\ \A k \in Feed!Key \ {H} : send'[k] = send[k]
  BY <1>1, <1>2, <1>3 DEF FeedTyped
<1>8. entry[H].st \notin {"pending", "uncertain"}
  <2>1. Feed!Pruned(X)[H] = entry[H] \/ entry[H].st \in {"delivered", "failed"}
    BY <1>1, <1>2, <1>3, FeedPruned
  <2> QED
    BY <1>1, <2>1
<1> HIDE DEF H, Q, h
<1>9. ASSUME NEW f \in Q
      PROVE  /\ entry'[Feed!Notice(f)] \in Entries /\ entry'[Feed!Notice(f)].st = "digesting"
             /\ entry'[Feed!Notice(f)].batch = {} /\ send[Feed!Notice(f)].at = "out"
  <2> DEFINE e == entry[Feed!Notice(f)]
  <2>1. e \in Entries
    BY <1>2, <1>4 DEF FeedTyped
  <2>2. entry'[Feed!Notice(f)] = [e EXCEPT !.st = "digesting"]
    BY <1>1, <1>3, <1>4 DEF H, Q, h
  <2>3. e.batch = {}
    BY <1>4 DEF FeedInv, FeedMembers
  <2>4. send[Feed!Notice(f)].at = "out"
    BY <1>4 DEF FeedInv, FeedSends, Said
  <2> HIDE DEF e
  <2>5. [e EXCEPT !.st = "digesting"] \in Entries /\ [e EXCEPT !.st = "digesting"].st = "digesting" /\ [e EXCEPT !.st = "digesting"].batch = e.batch
    BY <2>1 DEF Entries, Feed!Status
  <2> QED
    BY <2>2, <2>3, <2>4, <2>5
<1>10. ASSUME NEW k \in Feed!Key, k # H, \A f \in Q : k # Feed!Notice(f)
       PROVE  entry'[k] = entry[k] \/ (k \in X /\ entry'[k] = Feed!NoEntry /\ entry[k].st \in {"delivered", "failed"})
  <2>1. entry'[k] = Feed!Pruned(X)[k]
    BY <1>1, <1>10 DEF H, Q, h
  <2> QED
    BY <1>1, <1>2, <2>1, FeedPruned
<1>11. \A g \in Fact : /\ g \in Q => Said(g)' = "digesting"
                       /\ g \notin Q => \/ Said(g)' = Said(g)
                                        \/ Said(g) \in {"delivered", "failed"} /\ Said(g)' = "none" /\ g \in old'
  <2>1. \A g \in Q : Said(g)' = "digesting"
    BY <1>9 DEF Said
  <2>2. ASSUME NEW g \in Fact \ Q
        PROVE  Said(g)' = Said(g) \/ (Said(g) \in {"delivered", "failed"} /\ Said(g)' = "none" /\ g \in old')
    <3>1. Feed!Notice(g) # H /\ \A f \in Q : Feed!Notice(g) # Feed!Notice(f)
      BY <1>3
    <3> QED
      BY <1>6, <1>10, <3>1 DEF Said, Feed!NoEntry
  <2> QED
    BY <2>1, <2>2
\* No digest that is left has a member in the queue, for its head would be this one's.
<1>12. ASSUME NEW k \in Feed!Key, NEW g \in entry[k].batch, Said(g) = "queued" PROVE k = H
  <2>1. Leads(k, g) /\ k[2] = "digest" /\ k[1] \in Fact
    BY <1>12 DEF FeedInv, FeedQueue, FeedMembers
  <2>2. Said(k[1]) = "queued" /\ Before(k[1], h)
    BY <1>3, <1>4, <1>5, <1>12, <2>1 DEF Leads
  <2>3. Before(h, k[1])
    BY <1>4, <1>5, <2>1, <2>2
  <2>4. k[1] = h
    BY <1>2, <2>2, <2>3, BeforeBoth
  <2> QED
    BY <2>1, <2>4 DEF H
<1>13. ASSUME NEW k \in Feed!Key \ {H}, NEW g \in entry'[k].batch
       PROVE  entry'[k] = entry[k] /\ send'[k] = send[k] /\ g \in entry[k].batch /\ g \in Fact \ Q /\ k[2] = "digest"
  <2>1. entry'[k] = entry[k]
    BY <1>9, <1>10, <1>13 DEF Feed!NoEntry
  <2>2. g \in entry[k].batch /\ g \in Fact /\ k[2] = "digest"
    BY <1>2, <1>13, <2>1 DEF FeedInv, FeedMembers, FeedTyped, Entries
  <2>3. g \notin Q
    BY <1>4, <1>12, <1>13, <2>2
  <2> QED
    BY <1>7, <2>1, <2>2, <2>3
<1>14. ASSUME NEW k \in Feed!Key, k[2] = "digest" PROVE send[k].at = "out"
  BY <1>1, <1>14 DEF FeedInv, FeedSends, Feed!SweepFree
<1>15. ASSUME NEW k \in Feed!Key \ {H}, send'[k].at # "out"
       PROVE  k[2] # "digest" /\ entry'[k] = entry[k] /\ send'[k] = send[k] /\ entry[k].st \in {"pending", "uncertain"}
  <2>1. send'[k] = send[k] /\ entry[k].st \in {"pending", "uncertain"} /\ k[2] # "digest"
    BY <1>7, <1>14, <1>15 DEF FeedInv, FeedSends
  <2> QED
    BY <1>9, <1>10, <1>15, <2>1
<1>16. \A x, y : Before(x, y)' = Before(x, y)
  BY <1>1 DEF Before
<1>17. \A g \in Fact : Come(g)' = Come(g)
  BY <1>1 DEF Come
<1>18. FeedTyped'
  <2>1. entry' \in [Feed!Key -> Entries]
    <3>1. ASSUME NEW k \in Feed!Key PROVE entry'[k] \in Entries
      <4>1. CASE k = H
        BY <1>4, <1>7, <4>1 DEF Feed!Status, Entries
      <4>2. CASE \E f \in Q : k = Feed!Notice(f)
        BY <1>9, <4>2
      <4>3. CASE k # H /\ (\A f \in Q : k # Feed!Notice(f))
        <5>1. entry[k] \in Entries /\ Feed!NoEntry \in Entries
          BY <1>2 DEF FeedTyped, Feed!NoEntry, Feed!Status, Entries
        <5> QED
          BY <1>10, <4>3, <5>1
      <4> QED
        BY <4>1, <4>2, <4>3
    <3> QED
      BY <1>1, <3>1
  <2>2. send' \in [Feed!Key -> Sends]
    BY <1>1, <1>2 DEF FeedTyped, Sends
  <2> QED
    BY <1>1, <1>2, <1>6, <2>1, <2>2 DEF FeedTyped
<1>19. FeedSends'
  <2>1. ASSUME NEW k \in Feed!Key, send'[k].at # "out"
        PROVE  /\ entry'[k].st \in {"pending", "uncertain"}
               /\ k[2] = "digest" => k = H /\ send'[k].by = "sweep" /\ entry'[k].st = "pending"
    <3>1. CASE k = H
      BY <1>7, <3>1
    <3>2. CASE k # H
      BY <1>15, <2>1, <3>2
    <3> QED
      BY <3>1, <3>2
  <2> QED
    BY <2>1 DEF FeedSends
<1>20. FeedMembers'
  <2>1. ASSUME NEW k \in Feed!Key, k[2] = "digest", entry'[k].st # "none" PROVE k[1] \in entry'[k].batch
    <3>1. CASE k = H
      BY <1>3, <1>5, <1>7, <3>1
    <3>2. CASE k # H
      <4>1. \A f \in Q : k # Feed!Notice(f)
        BY <2>1
      <4> QED
        BY <1>10, <2>1, <3>2, <4>1 DEF FeedInv, FeedMembers, Feed!NoEntry
    <3> QED
      BY <3>1, <3>2
  <2>2. ASSUME NEW k \in Feed!Key, NEW g \in entry'[k].batch
        PROVE  /\ k[2] = "digest" /\ send'[Feed!Notice(g)].at = "out" /\ Before(k[1], g)' /\ Agree(k, g)'
               /\ \A m \in Feed!Key : g \in entry'[m].batch => m = k
    <3>1. CASE k = H
      <4>1. g \in Q /\ g \in Fact
        BY <1>4, <1>7, <2>2, <3>1
      <4>2. Agree(k, g)'
        BY <1>7, <1>11, <3>1, <4>1 DEF Agree
      <4>3. send'[Feed!Notice(g)].at = "out"
        BY <1>3, <1>7, <1>9, <4>1
      <4> QED
        BY <1>3, <1>5, <1>13, <1>16, <3>1, <4>1, <4>2, <4>3
    <3>2. CASE k # H
      <4>1. entry'[k] = entry[k] /\ g \in entry[k].batch /\ g \in Fact /\ g \notin Q
        BY <1>13, <2>2, <3>2
      <4>2. /\ k[2] = "digest" /\ send[Feed!Notice(g)].at = "out" /\ Before(k[1], g) /\ Agree(k, g)
            /\ \A m \in Feed!Key : g \in entry[m].batch => m = k
        BY <4>1 DEF FeedInv, FeedMembers
      <4>3. Agree(k, g)'
        BY <1>6, <1>11, <4>1, <4>2 DEF Agree
      <4>4. send'[Feed!Notice(g)].at = "out"
        BY <1>3, <1>7, <4>1, <4>2
      <4>5. \A m \in Feed!Key : g \in entry'[m].batch => m = k
        BY <1>7, <1>13, <4>1, <4>2
      <4> QED
        BY <1>16, <4>2, <4>3, <4>4, <4>5
    <3> QED
      BY <3>1, <3>2
  <2> QED
    BY <2>1, <2>2 DEF FeedMembers
<1>21. \A g \in Fact : Said(g)' # "queued"
  BY <1>4, <1>11
<1>22. FeedQueue'
  <2>1. \A k \in Feed!Key : \A g \in entry'[k].batch : g \in Fact
    BY <1>18 DEF FeedTyped, Entries
  <2> QED
    BY <1>21, <2>1 DEF FeedQueue, Leads
<1>23. FeedFresh'
  BY <1>1, <1>6, <1>11, <1>17 DEF FeedInv, FeedFresh
<1>24. \A k \in Feed!Key : entry'[k] = entry[k] => Feed!Members(k)' = Feed!Members(k)
  BY DEF Feed!Members
<1>25. FeedPosts'
  <2>1. ASSUME NEW k \in Feed!Key, send'[k].at \in {"post", "unsent"} \/ entry'[k].st = "failed", NEW g \in Feed!Members(k)'
        PROVE  ~Come(g)'
    <3>1. CASE k = H
      <4>1. g \in Q
        BY <1>3, <1>7, <2>1, <3>1 DEF Feed!Members
      <4>2. ~Come(g)
        BY <1>4, <1>8, <1>12, <4>1 DEF FeedInv, FeedWaits
      <4> QED
        BY <1>4, <1>17, <4>1, <4>2
    <3>2. CASE k # H
      <4>1. entry'[k] = entry[k] /\ send'[k] = send[k]
        BY <1>7, <1>9, <1>10, <1>15, <2>1, <3>2 DEF Feed!NoEntry
      <4>2. ~Come(g) /\ g \in Fact
        BY <1>2, <1>24, <2>1, <4>1 DEF FeedInv, FeedPosts, FeedTyped, Entries, Feed!Members
      <4> QED
        BY <1>17, <4>2
    <3> QED
      BY <3>1, <3>2
  <2> QED
    BY <2>1 DEF FeedPosts
<1>26. FeedComes'
  <2>1. ASSUME NEW k \in Feed!Key, send'[k].at = "ok", NEW g \in Feed!Members(k)' PROVE Come(g)'
    <3>1. k # H
      BY <1>7, <2>1
    <3>2. entry'[k] = entry[k] /\ send'[k] = send[k]
      BY <1>15, <2>1, <3>1
    <3>3. Come(g) /\ g \in Fact
      BY <1>2, <1>24, <2>1, <3>2 DEF FeedInv, FeedComes, FeedTyped, Entries, Feed!Members
    <3> QED
      BY <1>17, <3>3
  <2>2. \A g \in Fact : Said(g)' = "delivered" => Come(g)'
    BY <1>11, <1>17 DEF FeedInv, FeedComes
  <2> QED
    BY <2>1, <2>2 DEF FeedComes
<1>27. FeedWaits'
  <2>1. ASSUME NEW g \in Fact, Said(g)' = "digesting" PROVE \E k \in Feed!Key : g \in entry'[k].batch /\ entry'[k].st = "pending"
    <3>1. CASE g \in Q
      BY <1>3, <1>7, <3>1
    <3>2. CASE g \notin Q
      <4>1. PICK k \in Feed!Key : g \in entry[k].batch /\ entry[k].st = "pending"
        BY <1>11, <2>1, <3>2 DEF FeedInv, FeedWaits
      <4>2. k # H /\ k[2] = "digest"
        BY <1>8, <4>1 DEF FeedInv, FeedMembers
      <4>3. entry'[k] = entry[k]
        BY <1>10, <4>1, <4>2
      <4> QED
        BY <4>1, <4>3
    <3> QED
      BY <3>1, <3>2
  <2> QED
    BY <1>21, <2>1 DEF FeedWaits
<1>28. Feed!Once'
  BY <1>1 DEF FeedInv, Feed!Once
<1> QED
  BY <1>18, <1>19, <1>20, <1>22, <1>23, <1>25, <1>26, <1>27, <1>28 DEF FeedInv

LEMMA FeedReceipt ==
  ASSUME FeedInv, NEW k \in Feed!Key, entry[k].st = "pending", Feed!ReceiptAny(k)
  PROVE  FeedInv'
<1> USE FeedKeys, FeedConstants
<1> DEFINE s == Feed!Ended(k)
           e == entry[k]
<1>1. FeedTyped
  BY DEF FeedInv
<1>2. /\ UNCHANGED <<order, got, bound, old, conf, feedCmd>>
      /\ send' = [send EXCEPT ![k] = Feed!NoSend]
      /\ entry' = [x \in Feed!Key |->
           IF x = k THEN [e EXCEPT !.st = s, !.tries = IF @ = Attempts THEN @ ELSE @ + 1]
           ELSE IF x[2] # "notice" \/ x[1] \notin e.batch \/ entry[x].st = "none" THEN entry[x]
           ELSE IF s = "delivered" THEN [entry[x] EXCEPT !.st = s]
           ELSE IF entry[x].st # "digesting" THEN entry[x]
           ELSE [entry[x] EXCEPT !.st = IF s = "failed" THEN "queued" ELSE s]]
  BY DEF Feed!ReceiptAny, Feed!rest
<1>3. /\ send[k].at # "out" /\ s \in {"delivered", "uncertain", "failed"}
      /\ s = "delivered" => send[k].at = "ok"
      /\ s = "failed" => send[k].at = "unsent"
  BY DEF Feed!ReceiptAny, Feed!Ended
<1>4. e \in Entries /\ conf.dest \in Dest
  BY <1>1 DEF FeedTyped
<1> HIDE DEF s
<1>5. entry'[k] \in Entries /\ entry'[k].st = s /\ entry'[k].batch = e.batch
  <2> HIDE DEF e
  <2>1. [e EXCEPT !.st = s, !.tries = IF @ = Attempts THEN @ ELSE @ + 1] \in Entries
    <3>1. s \in Feed!Status /\ e.tries \in Nat
      BY <1>3, <1>4 DEF Feed!Status, Entries
    <3>2. (IF e.tries = Attempts THEN e.tries ELSE e.tries + 1) \in Nat
      BY <3>1
    <3> QED
      BY <1>4, <3>1, <3>2 DEF Entries
  <2>2. /\ [e EXCEPT !.st = s, !.tries = IF @ = Attempts THEN @ ELSE @ + 1].st = s
        /\ [e EXCEPT !.st = s, !.tries = IF @ = Attempts THEN @ ELSE @ + 1].batch = e.batch
    BY <1>4 DEF Entries
  <2>3. entry'[k] = [e EXCEPT !.st = s, !.tries = IF @ = Attempts THEN @ ELSE @ + 1]
    BY <1>2
  <2> QED
    BY <2>1, <2>2, <2>3
<1>6. ASSUME NEW x \in Feed!Key \ {k}
      PROVE  /\ entry'[x] \in Entries /\ entry'[x].batch = entry[x].batch
             /\ x[2] # "notice" \/ x[1] \notin e.batch => entry'[x] = entry[x]
             /\ x[2] = "notice" /\ x[1] \in e.batch /\ entry[x].st # "none" =>
                  entry'[x].st = CASE s = "delivered" -> "delivered"
                                   [] s # "delivered" /\ entry[x].st # "digesting" -> entry[x].st
                                   [] s = "failed" /\ entry[x].st = "digesting" -> "queued"
                                   [] OTHER -> s
  <2> DEFINE y == entry[x]
  <2>1. y \in Entries
    BY <1>1 DEF FeedTyped
  <2>2. CASE x[2] # "notice" \/ x[1] \notin e.batch \/ y.st = "none"
    BY <1>2, <2>1, <2>2
  <2>3. CASE x[2] = "notice" /\ x[1] \in e.batch /\ y.st # "none" /\ s # "delivered" /\ y.st # "digesting"
    BY <1>2, <2>1, <2>3
  <2>4. CASE x[2] = "notice" /\ x[1] \in e.batch /\ y.st # "none" /\ (s = "delivered" \/ y.st = "digesting")
    <3> DEFINE t == IF s = "failed" THEN "queued" ELSE s
    <3>1. entry'[x] = [y EXCEPT !.st = t] /\ t \in Feed!Status
      BY <1>2, <1>3, <2>4 DEF Feed!Status
    <3>2. t = CASE s = "delivered" -> "delivered"
                [] s # "delivered" /\ entry[x].st # "digesting" -> entry[x].st
                [] s = "failed" /\ entry[x].st = "digesting" -> "queued"
                [] OTHER -> s
      BY <1>3, <2>4
    <3> HIDE DEF y, t
    <3>3. [y EXCEPT !.st = t] \in Entries /\ [y EXCEPT !.st = t].st = t /\ [y EXCEPT !.st = t].batch = y.batch
      BY <2>1, <3>1 DEF Entries
    <3> QED
      BY <2>4, <3>1, <3>2, <3>3 DEF y
  <2> QED
    BY <2>2, <2>3, <2>4
<1>7. \A x \in Feed!Key : entry'[x].batch = entry[x].batch /\ entry'[x] \in Entries
  BY <1>5, <1>6
<1>8. \A x \in Feed!Key : \A g \in entry[x].batch : g \in Fact
  BY <1>1 DEF FeedTyped, Entries
\* What becomes of the members, of the fact of a notice, and of the others.
<1>9. ASSUME NEW g \in e.batch
      PROVE  /\ k[2] = "digest" /\ g \in Fact /\ Said(g) \in {"digesting", "queued"} /\ Agree(k, g)'
             /\ s = "delivered" => Said(g)' = "delivered"
             /\ s = "failed" => Said(g)' = "queued"
             /\ s = "uncertain" => Said(g)' = IF Said(g) = "queued" THEN "queued" ELSE "uncertain"
  <2>1. k[2] = "digest" /\ g \in Fact /\ Agree(k, g)
    BY <1>8, <1>9 DEF FeedInv, FeedMembers
  <2>2. Said(g) \in {"digesting", "queued"}
    BY <2>1 DEF Agree
  <2>3. Feed!Notice(g) \in Feed!Key \ {k} /\ Feed!Notice(g)[2] = "notice" /\ Feed!Notice(g)[1] = g
    BY <2>1
  <2>4. /\ s = "delivered" => Said(g)' = "delivered"
        /\ s = "failed" => Said(g)' = "queued"
        /\ s = "uncertain" => Said(g)' = IF Said(g) = "queued" THEN "queued" ELSE "uncertain"
    BY <1>6, <1>9, <2>2, <2>3 DEF Said
  <2>5. Agree(k, g)'
    BY <1>3, <1>5, <2>2, <2>4 DEF Agree
  <2> QED
    BY <2>1, <2>2, <2>4, <2>5
<1>10. ASSUME NEW g \in Fact, g \notin e.batch, Feed!Notice(g) # k PROVE Said(g)' = Said(g)
  BY <1>6, <1>10 DEF Said
<1>11. ASSUME NEW x \in Feed!Key \ {k}, x[2] = "digest" PROVE entry'[x] = entry[x]
  BY <1>6, <1>11
<1>12. ASSUME NEW x \in Feed!Key, send'[x].at # "out" PROVE x # k /\ send'[x] = send[x] /\ entry'[x] = entry[x]
  <2>1. x # k /\ send'[x] = send[x]
    BY <1>1, <1>2, <1>12 DEF FeedTyped, Feed!NoSend
  <2>2. x[2] # "notice" \/ x[1] \notin e.batch
    BY <1>12, <2>1 DEF FeedInv, FeedMembers
  <2> QED
    BY <1>6, <2>1, <2>2
<1>13. \A x, y : Before(x, y)' = Before(x, y)
  BY <1>2 DEF Before
<1>14. \A g \in Fact : Come(g)' = Come(g)
  BY <1>2 DEF Come
<1>15. \A x \in Feed!Key : Feed!Members(x)' = Feed!Members(x) /\ \A g \in Feed!Members(x) : g \in Fact
  BY <1>7, <1>8 DEF Feed!Members
<1>16. k[2] # "digest" => e.batch = {}
  BY <1>9
<1>17. FeedTyped'
  <2>1. entry' \in [Feed!Key -> Entries]
    BY <1>2, <1>7
  <2>2. send' \in [Feed!Key -> Sends]
    BY <1>1, <1>2, <1>4 DEF FeedTyped, Feed!NoSend, Sends
  <2> QED
    BY <1>1, <1>2, <2>1, <2>2 DEF FeedTyped
<1>18. FeedSends'
  BY <1>12 DEF FeedInv, FeedSends
<1>19. FeedMembers'
  <2>1. ASSUME NEW x \in Feed!Key, x[2] = "digest", entry'[x].st # "none" PROVE x[1] \in entry'[x].batch
    <3>1. entry[x].st # "none"
      BY <1>11, <2>1
    <3> QED
      BY <1>7, <2>1, <3>1 DEF FeedInv, FeedMembers
  <2>2. ASSUME NEW x \in Feed!Key, NEW g \in entry'[x].batch
        PROVE  /\ x[2] = "digest" /\ send'[Feed!Notice(g)].at = "out" /\ Before(x[1], g)' /\ Agree(x, g)'
               /\ \A m \in Feed!Key : g \in entry'[m].batch => m = x
    <3>1. g \in entry[x].batch /\ g \in Fact
      BY <1>7, <1>8, <2>2
    <3>2. /\ x[2] = "digest" /\ send[Feed!Notice(g)].at = "out" /\ Before(x[1], g) /\ Agree(x, g)
          /\ \A m \in Feed!Key : g \in entry[m].batch => m = x
      BY <3>1 DEF FeedInv, FeedMembers
    <3>3. send'[Feed!Notice(g)].at = "out"
      BY <1>12, <3>1, <3>2
    <3>4. Agree(x, g)'
      <4>1. CASE x = k
        BY <1>9, <3>1, <4>1
      <4>2. CASE x # k
        <5>1. g \notin e.batch /\ Feed!Notice(g) # k
          BY <1>3, <3>2, <4>2
        <5>2. Said(g)' = Said(g) /\ entry'[x] = entry[x]
          BY <1>10, <1>11, <3>1, <3>2, <4>2, <5>1
        <5> QED
          BY <1>2, <3>2, <5>2 DEF Agree
      <4> QED
        BY <4>1, <4>2
    <3> QED
      BY <1>7, <1>13, <3>2, <3>3, <3>4
  <2> QED
    BY <2>1, <2>2 DEF FeedMembers
<1>20. FeedQueue'
  <2>1. ASSUME NEW x \in Feed!Key, NEW g \in entry'[x].batch PROVE Leads(x, g)'
    <3>1. g \in entry[x].batch /\ g \in Fact /\ x[2] = "digest" /\ x[1] \in Fact
      BY <1>7, <1>8, <2>1 DEF FeedInv, FeedMembers
    <3>2. Leads(x, g) /\ Before(x[1], g) /\ \A m \in Feed!Key : g \in entry[m].batch => m = x
      BY <3>1 DEF FeedInv, FeedQueue, FeedMembers
    <3>3. CASE k[2] = "digest"
      <4>1. k[1] \in e.batch
        BY <3>3 DEF FeedInv, FeedMembers
      <4>2. Leads(k, k[1]) /\ send[k].at # "out"
        BY <1>3, <4>1 DEF FeedInv, FeedQueue
      <4>3. \A y \in Fact : Feed!Notice(y) # k
        BY <3>3
      <4>4. CASE x = k
        <5>1. Said(g)' = "queued" => Said(x[1])' = "queued"
          <6>1. Said(g)' = "queued" => s = "failed" \/ Said(g) = "queued"
            BY <1>3, <1>9, <3>1, <4>4
          <6>2. CASE s = "failed"
            BY <1>9, <4>1, <4>4, <6>2
          <6>3. CASE s # "failed" /\ Said(g)' = "queued"
            <7>1. Said(x[1]) = "queued" /\ s = "uncertain"
              BY <1>3, <1>9, <3>1, <3>2, <4>4, <6>1, <6>3 DEF Leads
            <7> QED
              BY <1>9, <4>1, <4>4, <7>1
          <6> QED
            BY <6>2, <6>3
        <5>2. ASSUME NEW y \in Fact, Said(y)' = "queued"
              PROVE  Before(x[1], y)' /\ \A m \in Feed!Key : y \in entry'[m].batch => m = x
          <6>1. CASE y \in e.batch
            BY <1>7, <1>13, <4>4, <6>1 DEF FeedInv, FeedMembers
          <6>2. CASE y \notin e.batch
            <7>1. Said(y) = "queued"
              BY <1>10, <4>3, <5>2, <6>2
            <7> QED
              BY <1>7, <1>13, <4>2, <4>4, <7>1 DEF Leads
          <6> QED
            BY <6>1, <6>2
        <5> QED
          BY <5>1, <5>2 DEF Leads
      <4>5. CASE x # k
        <5>1. g \notin e.batch
          BY <3>2, <4>5
        <5>2. Said(g) # "queued"
          BY <3>1, <4>2, <4>5 DEF Leads
        <5>3. Said(g)' # "queued"
          BY <1>10, <3>1, <4>3, <5>1, <5>2
        <5>4. send'[x].at = "out"
          BY <1>3, <1>12, <3>1, <3>3, <4>5 DEF FeedInv, FeedSends
        <5> QED
          BY <5>3, <5>4 DEF Leads
      <4> QED
        BY <4>4, <4>5
    <3>4. CASE k[2] # "digest"
      <4>1. e.batch = {} /\ x # k
        BY <1>16, <3>1, <3>4
      <4>2. \A y \in Fact : Said(y)' = "queued" <=> Said(y) = "queued"
        <5>1. ASSUME NEW y \in Fact, Feed!Notice(y) = k PROVE Said(y)' # "queued" /\ Said(y) # "queued"
          BY <1>3, <1>5, <5>1 DEF Said
        <5> QED
          BY <1>10, <4>1, <5>1
      <4>3. send'[x].at # "out" => send[x].at # "out"
        BY <1>12
      <4> QED
        BY <1>7, <1>13, <3>1, <3>2, <4>2, <4>3 DEF Leads
    <3> QED
      BY <3>3, <3>4
  <2> QED
    BY <2>1 DEF FeedQueue
<1>21. ASSUME NEW g \in Fact, Said(g)' = "none" PROVE Said(g) = "none"
  <2>1. CASE g \in e.batch
    BY <1>3, <1>9, <1>21, <2>1
  <2>2. CASE g \notin e.batch /\ Feed!Notice(g) = k
    BY <1>3, <1>5, <1>21, <2>2 DEF Said
  <2>3. CASE g \notin e.batch /\ Feed!Notice(g) # k
    BY <1>10, <1>21, <2>3
  <2> QED
    BY <2>1, <2>2, <2>3
<1>22. FeedFresh'
  BY <1>2, <1>14, <1>21 DEF FeedInv, FeedFresh
<1>23. FeedPosts'
  <2>1. ASSUME NEW x \in Feed!Key, send'[x].at \in {"post", "unsent"} \/ entry'[x].st = "failed", NEW g \in Feed!Members(x)'
        PROVE  ~Come(g)'
    <3>1. g \in Feed!Members(x) /\ g \in Fact
      BY <1>15, <2>1
    <3>2. CASE x = k
      <4>1. send[k].at = "unsent"
        BY <1>3, <1>5, <1>12, <2>1, <3>2
      <4> QED
        BY <1>14, <3>1, <3>2, <4>1 DEF FeedInv, FeedPosts
    <3>3. CASE x # k
      <4>1. send[x].at \in {"post", "unsent"} \/ entry[x].st = "failed"
        <5>1. CASE entry'[x].st = "failed"
          <6>1. x[2] # "notice" \/ x[1] \notin e.batch
            <7>1. ASSUME x[2] = "notice", x[1] \in e.batch PROVE FALSE
              <8>1. x = Feed!Notice(x[1])
                BY <7>1
              <8>2. Said(x[1])' = "failed"
                BY <5>1, <8>1 DEF Said
              <8> QED
                BY <1>3, <1>9, <7>1, <8>2
            <7> QED
              BY <7>1
          <6> QED
            BY <1>6, <3>3, <5>1, <6>1
        <5>2. CASE send'[x].at \in {"post", "unsent"}
          BY <1>12, <5>2
        <5> QED
          BY <2>1, <5>1, <5>2
      <4> QED
        BY <1>14, <3>1, <4>1 DEF FeedInv, FeedPosts
    <3> QED
      BY <3>2, <3>3
  <2> QED
    BY <2>1 DEF FeedPosts
<1>24. FeedComes'
  <2>1. ASSUME NEW x \in Feed!Key, send'[x].at = "ok", NEW g \in Feed!Members(x)' PROVE Come(g)'
    BY <1>12, <1>14, <1>15, <2>1 DEF FeedInv, FeedComes
  <2>2. ASSUME NEW g \in Fact, Said(g)' = "delivered" PROVE Come(g)'
    <3>1. CASE g \in e.batch
      <4>1. s = "delivered" /\ g \in Feed!Members(k)
        BY <1>3, <1>9, <2>2, <3>1 DEF Feed!Members
      <4> QED
        BY <1>3, <1>14, <4>1 DEF FeedInv, FeedComes
    <3>2. CASE g \notin e.batch /\ Feed!Notice(g) = k
      <4>1. s = "delivered" /\ g \in Feed!Members(k)
        BY <1>5, <2>2, <3>2 DEF Said, Feed!Members
      <4> QED
        BY <1>3, <1>14, <4>1 DEF FeedInv, FeedComes
    <3>3. CASE g \notin e.batch /\ Feed!Notice(g) # k
      BY <1>10, <1>14, <2>2, <3>3 DEF FeedInv, FeedComes
    <3> QED
      BY <3>1, <3>2, <3>3
  <2> QED
    BY <2>1, <2>2 DEF FeedComes
<1>25. FeedWaits'
  <2>1. ASSUME NEW g \in Fact, Said(g)' = "queued", Come(g)'
        PROVE  \E x \in Feed!Key : g \in entry'[x].batch /\ entry'[x].st \in {"pending", "uncertain"}
    <3>1. CASE g \in e.batch
      <4>1. s # "failed"
        <5>1. g \in Feed!Members(k) /\ g \in Fact
          BY <1>9, <3>1 DEF Feed!Members
        <5> QED
          BY <1>3, <1>14, <2>1, <5>1 DEF FeedInv, FeedPosts
      <4>2. s = "uncertain"
        BY <1>3, <1>9, <2>1, <3>1, <4>1
      <4> QED
        BY <1>5, <3>1, <4>2
    <3>2. CASE g \notin e.batch
      <4>1. Feed!Notice(g) # k
        BY <1>3, <1>5, <2>1 DEF Said
      <4>2. Said(g) = "queued" /\ Come(g)
        BY <1>10, <1>14, <2>1, <3>2, <4>1
      <4>3. PICK x \in Feed!Key : g \in entry[x].batch /\ entry[x].st \in {"pending", "uncertain"}
        BY <4>2 DEF FeedInv, FeedWaits
      <4>4. x # k /\ x[2] = "digest"
        BY <3>2, <4>3 DEF FeedInv, FeedMembers
      <4> QED
        BY <1>11, <4>3, <4>4
    <3> QED
      BY <3>1, <3>2
  <2>2. ASSUME NEW g \in Fact, Said(g)' = "digesting" PROVE \E x \in Feed!Key : g \in entry'[x].batch /\ entry'[x].st = "pending"
    <3>1. g \notin e.batch
      BY <1>3, <1>9, <2>2
    <3>2. Feed!Notice(g) # k
      BY <1>3, <1>5, <2>2 DEF Said
    <3>3. PICK x \in Feed!Key : g \in entry[x].batch /\ entry[x].st = "pending"
      BY <1>10, <2>2, <3>1, <3>2 DEF FeedInv, FeedWaits
    <3>4. x # k /\ x[2] = "digest"
      BY <3>1, <3>3 DEF FeedInv, FeedMembers
    <3> QED
      BY <1>11, <3>3, <3>4
  <2> QED
    BY <2>1, <2>2 DEF FeedWaits
<1>26. Feed!Once'
  BY <1>2 DEF FeedInv, Feed!Once
<1> QED
  BY <1>17, <1>18, <1>19, <1>20, <1>22, <1>23, <1>24, <1>25, <1>26 DEF FeedInv

LEMMA FeedRetry ==
  ASSUME FeedInv, NEW X \in SUBSET Feed!Expirable, NEW S \in SUBSET Feed!With("pending"), Feed!Retry(S, X)
  PROVE  FeedInv'
<1> USE FeedKeys, FeedConstants
<1> DEFINE again == Feed!Retryable \ X
<1>1. FeedTyped
  BY DEF FeedInv
<1>2. /\ Feed!SweepFree /\ Feed!Expired(X) /\ UNCHANGED <<order, got, bound, conf, feedCmd>>
      /\ entry' = [k \in Feed!Key |->
           IF k \in S THEN [entry[k] EXCEPT !.st = "uncertain"]
           ELSE IF \E f \in Feed!Stale(S) : k = Feed!Notice(f) THEN [entry[k] EXCEPT !.st = "uncertain"]
           ELSE IF k \in again THEN [entry[k] EXCEPT !.st = "pending"]
           ELSE Feed!Pruned(X)[k]]
      /\ send' = [k \in Feed!Key |-> IF k \in again THEN [at |-> "post", by |-> "sweep", to |-> conf.dest] ELSE send[k]]
  BY DEF Feed!Retry, Feed!rest
<1>3. \A k \in again : k \in Feed!Key /\ entry[k].st = "failed"
  BY DEF Feed!Retryable, Feed!With
<1>4. \A k \in S : k \in Feed!Key /\ entry[k].st = "pending"
  BY DEF Feed!With
<1>5. \A f \in Feed!Stale(S) : f \in Fact /\ Said(f) = "digesting"
  BY DEF Feed!Stale, Said
<1>6. /\ old' \subseteq Fact /\ old \subseteq old' /\ \A g \in Fact : Feed!Notice(g) \in X => g \in old'
  BY <1>1, <1>2, FeedPruned
<1> HIDE DEF again
<1>7. ASSUME NEW k \in Feed!Key
      PROVE  \/ /\ k \in S /\ k \notin again /\ entry[k].st = "pending"
                /\ entry'[k] \in Entries /\ entry'[k].st = "uncertain" /\ entry'[k].batch = entry[k].batch
             \/ /\ \E f \in Feed!Stale(S) : k = Feed!Notice(f)
                /\ entry[k].st = "digesting" /\ k \notin S /\ k \notin again
                /\ entry'[k] \in Entries /\ entry'[k].st = "uncertain" /\ entry'[k].batch = entry[k].batch
             \/ /\ k \in again /\ k \notin S /\ entry[k].st = "failed"
                /\ entry'[k] \in Entries /\ entry'[k].st = "pending" /\ entry'[k].batch = entry[k].batch
             \/ /\ k \notin again /\ k \notin S /\ entry'[k] = entry[k] /\ \A f \in Feed!Stale(S) : k # Feed!Notice(f)
             \/ /\ k \notin again /\ k \notin S /\ k \in X
                /\ entry'[k] = Feed!NoEntry /\ entry[k].st \in {"delivered", "failed"}
  <2> DEFINE e == entry[k]
  <2>1. e \in Entries
    BY <1>1 DEF FeedTyped
  <2>2. \/ k \in S /\ k \notin again /\ entry[k].st = "pending" /\ entry'[k] = [e EXCEPT !.st = "uncertain"]
        \/ /\ \E f \in Feed!Stale(S) : k = Feed!Notice(f)
           /\ entry[k].st = "digesting" /\ k \notin S /\ k \notin again /\ entry'[k] = [e EXCEPT !.st = "uncertain"]
        \/ k \in again /\ k \notin S /\ entry[k].st = "failed" /\ entry'[k] = [e EXCEPT !.st = "pending"]
        \/ /\ k \notin again /\ k \notin S /\ entry'[k] = Feed!Pruned(X)[k]
           /\ \A f \in Feed!Stale(S) : k # Feed!Notice(f)
    BY <1>2, <1>3, <1>4, <1>5 DEF Said
  <2>3. \/ Feed!Pruned(X)[k] = entry[k]
        \/ k \in X /\ Feed!Pruned(X)[k] = Feed!NoEntry /\ entry[k].st \in {"delivered", "failed"}
    BY <1>1, <1>2, FeedPruned
  <2> HIDE DEF e
  <2>4. \A s \in {"uncertain", "pending"} :
          [e EXCEPT !.st = s] \in Entries /\ [e EXCEPT !.st = s].st = s /\ [e EXCEPT !.st = s].batch = e.batch
    BY <2>1 DEF Entries, Feed!Status
  <2> QED
    BY <2>2, <2>3, <2>4 DEF e
<1>8. \A k \in Feed!Key : send'[k] = IF k \in again THEN [at |-> "post", by |-> "sweep", to |-> conf.dest] ELSE send[k]
  BY <1>2
<1>9. \A x, y : Before(x, y)' = Before(x, y)
  BY <1>2 DEF Before
<1>10. \A g \in Fact : Come(g)' = Come(g)
  BY <1>2 DEF Come
\* A batch is kept or, with its digest, forgotten.
<1>11. ASSUME NEW k \in Feed!Key, NEW g \in entry'[k].batch
       PROVE  /\ g \in entry[k].batch /\ g \in Fact /\ entry'[k].batch = entry[k].batch
              /\ k[2] = "digest" /\ send[Feed!Notice(g)].at = "out" /\ Before(k[1], g) /\ Agree(k, g)
              /\ \A m \in Feed!Key : g \in entry[m].batch => m = k
  <2>1. g \in entry[k].batch /\ entry'[k].batch = entry[k].batch
    BY <1>7, <1>11 DEF Feed!NoEntry
  <2> QED
    BY <1>1, <2>1 DEF FeedInv, FeedMembers, FeedTyped, Entries
<1>12. \A k \in Feed!Key : \A g \in Feed!Members(k)' : g \in Feed!Members(k) /\ g \in Fact
  BY <1>11 DEF Feed!Members
<1>13. ASSUME NEW k \in Feed!Key, k[2] = "digest" PROVE send[k].at = "out"
  BY <1>2, <1>13 DEF FeedInv, FeedSends, Feed!SweepFree
\* Only the digest of the head of the queue is sent again.
<1>14. ASSUME NEW k \in again, k[2] = "digest"
       PROVE  k[1] \in entry[k].batch /\ Said(k[1]) = "queued"
  <2>1. k \in Feed!Key /\ entry[k].st = "failed" /\ k[1] \in entry[k].batch
    BY <1>3, <1>14 DEF FeedInv, FeedMembers
  <2>2. Agree(k, k[1])
    BY <2>1 DEF FeedInv, FeedMembers
  <2> QED
    BY <2>1, <2>2 DEF Agree
<1>15. ASSUME NEW k \in again, NEW m \in again, k[2] = "digest", m[2] = "digest" PROVE k = m
  <2>1. Leads(k, k[1]) /\ k[1] \in entry[k].batch /\ Said(k[1]) = "queued"
    BY <1>3, <1>14, <1>15 DEF FeedInv, FeedQueue
  <2>2. m \in Feed!Key /\ m[1] \in Fact /\ m[1] \in entry[m].batch /\ Said(m[1]) = "queued"
    BY <1>3, <1>14, <1>15
  <2> QED
    BY <2>1, <2>2 DEF Leads
\* What a fact is said to be.
<1>16. ASSUME NEW g \in Fact
       PROVE  \/ Said(g) = "pending" /\ Said(g)' = "uncertain"
              \/ Said(g) = "digesting" /\ g \in Feed!Stale(S) /\ Said(g)' = "uncertain"
              \/ Said(g) = "failed" /\ Said(g)' = "pending"
              \/ Said(g)' = Said(g) /\ g \notin Feed!Stale(S)
              \/ Said(g) \in {"delivered", "failed"} /\ Said(g)' = "none" /\ g \in old'
  <2>1. Feed!Notice(g) \in Feed!Key /\ \A f \in Feed!Stale(S) : Feed!Notice(g) = Feed!Notice(f) => g = f
    BY <1>5
  <2> QED
    BY <1>6, <1>7, <2>1 DEF Said, Feed!NoEntry
<1>17. \A g \in Fact : Said(g)' = "queued" <=> Said(g) = "queued"
  <2>1. ASSUME NEW g \in Fact, Said(g) = "queued" PROVE g \notin Feed!Stale(S)
    BY <1>5, <2>1
  <2> QED
    BY <1>16, <2>1
<1>18. FeedTyped'
  <2>1. entry' \in [Feed!Key -> Entries]
    <3>1. Feed!NoEntry \in Entries /\ \A k \in Feed!Key : entry[k] \in Entries
      BY <1>1 DEF FeedTyped, Feed!NoEntry, Feed!Status, Entries
    <3>2. \A k \in Feed!Key : entry'[k] \in Entries
      BY <1>7, <3>1
    <3> QED
      BY <1>2, <3>2
  <2>2. send' \in [Feed!Key -> Sends]
    BY <1>1, <1>2 DEF FeedTyped, Sends
  <2> QED
    BY <1>1, <1>2, <1>6, <2>1, <2>2 DEF FeedTyped
<1>19. FeedSends'
  <2>1. ASSUME NEW k \in Feed!Key, send'[k].at # "out"
        PROVE  /\ entry'[k].st \in {"pending", "uncertain"}
               /\ k[2] = "digest" => k \in again /\ send'[k].by = "sweep" /\ entry'[k].st = "pending"
    <3>1. CASE k \in again
      BY <1>7, <1>8, <3>1
    <3>2. CASE k \notin again
      <4>1. send[k].at # "out" /\ k[2] # "digest" /\ entry[k].st \in {"pending", "uncertain"}
        BY <1>8, <1>13, <2>1, <3>2 DEF FeedInv, FeedSends
      <4> QED
        BY <1>7, <3>2, <4>1
    <3> QED
      BY <3>1, <3>2
  <2> QED
    BY <1>15, <2>1 DEF FeedSends
<1>20. FeedMembers'
  <2>1. ASSUME NEW k \in Feed!Key, k[2] = "digest", entry'[k].st # "none" PROVE k[1] \in entry'[k].batch
    <3>1. entry[k].st # "none" /\ entry'[k].batch = entry[k].batch
      BY <1>7, <2>1 DEF Feed!NoEntry
    <3> QED
      BY <2>1, <3>1 DEF FeedInv, FeedMembers
  <2>2. ASSUME NEW k \in Feed!Key, NEW g \in entry'[k].batch
        PROVE  /\ k[2] = "digest" /\ send'[Feed!Notice(g)].at = "out" /\ Before(k[1], g)' /\ Agree(k, g)'
               /\ \A m \in Feed!Key : g \in entry'[m].batch => m = k
    <3>1. /\ g \in entry[k].batch /\ g \in Fact /\ k[2] = "digest" /\ send[Feed!Notice(g)].at = "out"
          /\ Before(k[1], g) /\ Agree(k, g) /\ \A m \in Feed!Key : g \in entry[m].batch => m = k
      BY <1>11, <2>2
    <3>2. Said(g) \notin {"pending", "failed"} /\ Feed!Notice(g) \notin again
      BY <1>3, <3>1 DEF Agree, Said
    <3>3. g \in Feed!Stale(S) => k \in S
      BY <1>4, <3>1 DEF Feed!Stale
    <3>4. Agree(k, g)'
      <4>1. CASE k \in S
        <5>1. entry'[k].st = "uncertain" /\ Said(g) \in {"digesting", "queued"}
          BY <1>4, <1>7, <3>1, <4>1 DEF Agree
        <5>2. Said(g) = "digesting" => g \in Feed!Stale(S)
          BY <3>1, <4>1 DEF Feed!Stale, Said
        <5> QED
          BY <1>16, <1>17, <3>1, <5>1, <5>2 DEF Agree
      <4>2. CASE k \in again
        <5>1. entry'[k].st = "pending" /\ Said(g) = "queued"
          BY <1>3, <1>7, <3>1, <4>2 DEF Agree
        <5> QED
          BY <1>17, <3>1, <5>1 DEF Agree
      <4>3. CASE k \notin S /\ k \notin again
        <5>1. entry'[k] = entry[k]
          <6>1. \A f \in Feed!Stale(S) : k # Feed!Notice(f)
            BY <3>1
          <6> QED
            BY <1>7, <2>2, <4>3, <6>1 DEF Feed!NoEntry
        <5>2. Said(g)' = Said(g) \/ (Said(g) = "delivered" /\ Said(g)' = "none" /\ g \in old')
          BY <1>16, <3>1, <3>2, <3>3, <4>3
        <5> QED
          BY <1>6, <3>1, <5>1, <5>2 DEF Agree
      <4> QED
        BY <4>1, <4>2, <4>3
    <3>5. \A m \in Feed!Key : g \in entry'[m].batch => m = k
      BY <1>11, <3>1
    <3> QED
      BY <1>8, <1>9, <3>1, <3>2, <3>4, <3>5
  <2> QED
    BY <2>1, <2>2 DEF FeedMembers
<1>21. FeedQueue'
  <2>1. ASSUME NEW k \in Feed!Key, NEW g \in entry'[k].batch PROVE Leads(k, g)'
    <3>1. g \in entry[k].batch /\ g \in Fact /\ k[2] = "digest" /\ k[1] \in Fact /\ Agree(k, g)
      BY <1>11, <2>1
    <3>2. Leads(k, g)
      BY <3>1 DEF FeedInv, FeedQueue
    <3>3. send'[k].at # "out" => Said(g) = "queued"
      <4>1. send'[k].at # "out" => k \in again
        BY <1>8, <1>13, <3>1
      <4> QED
        BY <1>3, <3>1, <4>1 DEF Agree
    <3>4. ASSUME Said(g) = "queued", NEW y \in Fact, Said(y)' = "queued"
          PROVE  Before(k[1], y)' /\ \A m \in Feed!Key : y \in entry'[m].batch => m = k
      <4>1. Before(k[1], y) /\ \A m \in Feed!Key : y \in entry[m].batch => m = k
        BY <1>17, <3>2, <3>4 DEF Leads
      <4> QED
        BY <1>9, <1>11, <4>1
    <3> QED
      BY <1>17, <3>1, <3>2, <3>3, <3>4 DEF Leads
  <2> QED
    BY <2>1 DEF FeedQueue
<1>22. FeedFresh'
  BY <1>2, <1>6, <1>10, <1>16 DEF FeedInv, FeedFresh
<1>23. FeedPosts'
  <2>1. ASSUME NEW k \in Feed!Key, send'[k].at \in {"post", "unsent"} \/ entry'[k].st = "failed", NEW g \in Feed!Members(k)'
        PROVE  ~Come(g)'
    <3>1. send[k].at \in {"post", "unsent"} \/ entry[k].st = "failed"
      BY <1>3, <1>7, <1>8, <2>1 DEF Feed!NoEntry
    <3> QED
      BY <1>10, <1>12, <2>1, <3>1 DEF FeedInv, FeedPosts
  <2> QED
    BY <2>1 DEF FeedPosts
<1>24. FeedComes'
  <2>1. ASSUME NEW k \in Feed!Key, send'[k].at = "ok", NEW g \in Feed!Members(k)' PROVE Come(g)'
    <3>1. send[k].at = "ok"
      BY <1>8, <2>1
    <3> QED
      BY <1>10, <1>12, <2>1, <3>1 DEF FeedInv, FeedComes
  <2>2. \A g \in Fact : Said(g)' = "delivered" => Come(g)'
    BY <1>10, <1>16 DEF FeedInv, FeedComes
  <2> QED
    BY <2>1, <2>2 DEF FeedComes
<1>25. FeedWaits'
  <2>1. ASSUME NEW g \in Fact, Said(g)' = "queued", Come(g)'
        PROVE  \E k \in Feed!Key : g \in entry'[k].batch /\ entry'[k].st \in {"pending", "uncertain"}
    <3>1. PICK k \in Feed!Key : g \in entry[k].batch /\ entry[k].st \in {"pending", "uncertain"}
      BY <1>10, <1>17, <2>1 DEF FeedInv, FeedWaits
    <3>2. entry'[k].batch = entry[k].batch /\ entry'[k].st \in {"pending", "uncertain"}
      BY <1>7, <3>1
    <3> QED
      BY <3>1, <3>2
  <2>2. ASSUME NEW g \in Fact, Said(g)' = "digesting" PROVE \E k \in Feed!Key : g \in entry'[k].batch /\ entry'[k].st = "pending"
    <3>1. Said(g) = "digesting" /\ g \notin Feed!Stale(S)
      BY <1>16, <2>2
    <3>2. PICK k \in Feed!Key : g \in entry[k].batch /\ entry[k].st = "pending"
      BY <3>1 DEF FeedInv, FeedWaits
    <3>3. k \notin S
      BY <3>1, <3>2 DEF Feed!Stale, Said
    <3>4. entry'[k] = entry[k]
      BY <1>7, <3>2, <3>3
    <3> QED
      BY <3>2, <3>4
  <2> QED
    BY <2>1, <2>2 DEF FeedWaits
<1>26. Feed!Once'
  BY <1>2 DEF FeedInv, Feed!Once
<1> QED
  BY <1>18, <1>19, <1>20, <1>21, <1>22, <1>23, <1>24, <1>25, <1>26 DEF FeedInv

\* Where the notices go, and the command that may change it.
FeedPlace == /\ conf \in [on : BOOLEAN, dest : Dest, mute : BOOLEAN]
             /\ feedCmd \in [at : {"out", "write"}, to : Dest]

LEMMA FeedStep == FeedInv /\ FeedPlace /\ [Feed!Next]_feedVars => FeedInv' /\ FeedPlace'
<1> SUFFICES ASSUME FeedInv, FeedPlace, [Feed!Next]_feedVars PROVE FeedInv' /\ FeedPlace'
  OBVIOUS
<1>1. FeedTyped /\ conf.dest \in Dest
  BY DEF FeedInv, FeedPlace
<1>2. Feed!NoSend \in Sends /\ Feed!NoSend.at = "out"
  BY <1>1 DEF Feed!NoSend, Sends
<1>3. CASE UNCHANGED feedVars
  <2>1. UNCHANGED <<entry, order, got, old, conf, feedCmd, send>>
    BY <1>3 DEF feedVars
  <2>2. send' \in [Feed!Key -> Sends] /\ conf'.dest \in Dest
    BY <1>1, <2>1 DEF FeedTyped
  <2> QED
    BY <2>1, <2>2, FeedQuiet DEF FeedPlace
<1>4. ASSUME NEW X \in SUBSET Feed!Expirable, NEW f \in Fact, Feed!Notify(f, X) PROVE FeedInv' /\ FeedPlace'
  <2>1. UNCHANGED <<conf, feedCmd>>
    BY <1>4 DEF Feed!Notify, Feed!Claims, Feed!rest
  <2> QED
    BY <1>4, <2>1, FeedClaims DEF FeedPlace
<1>5. ASSUME NEW X \in SUBSET Feed!Expirable, Feed!Flush(X) PROVE FeedInv' /\ FeedPlace'
  <2>1. UNCHANGED <<conf, feedCmd>>
    BY <1>5 DEF Feed!Flush, Feed!rest
  <2> QED
    BY <1>5, <2>1, FeedFlush DEF FeedPlace
<1>6. ASSUME NEW X \in SUBSET Feed!Expirable, NEW S \in SUBSET Feed!With("pending"), Feed!Retry(S, X)
      PROVE  FeedInv' /\ FeedPlace'
  <2>1. UNCHANGED <<conf, feedCmd>>
    BY <1>6 DEF Feed!Retry, Feed!rest
  <2> QED
    BY <1>6, <2>1, FeedRetry DEF FeedPlace
<1>7. ASSUME NEW k \in Feed!Key, Feed!Post(k) PROVE FeedInv' /\ FeedPlace'
  <2>1. UNCHANGED <<conf, feedCmd>>
    BY <1>7 DEF Feed!Post, Feed!rest
  <2> QED
    BY <1>7, <2>1, FeedPost DEF FeedPlace
<1>8. ASSUME NEW k \in Feed!Key, entry[k].st = "pending", Feed!ReceiptAny(k) PROVE FeedInv' /\ FeedPlace'
  <2>1. UNCHANGED <<conf, feedCmd>>
    BY <1>8 DEF Feed!ReceiptAny, Feed!rest
  <2> QED
    BY <1>8, <2>1, FeedReceipt DEF FeedPlace
<1>9. ASSUME NEW k \in Feed!Key, Feed!ReceiptLate(k) \/ Feed!DieGate(k) PROVE FeedInv' /\ FeedPlace'
  <2>1. UNCHANGED <<entry, order, got, old, conf, feedCmd>> /\ send' = [send EXCEPT ![k] = Feed!NoSend]
    BY <1>9 DEF Feed!ReceiptLate, Feed!DieGate, Feed!rest
  <2>2. send' \in [Feed!Key -> Sends] /\ (\A m \in Feed!Key : send'[m] = send[m] \/ send'[m].at = "out") /\ conf'.dest \in Dest
    BY <1>1, <1>2, <2>1 DEF FeedTyped
  <2> QED
    BY <2>1, <2>2, FeedQuiet DEF FeedPlace
<1>10. CASE Feed!DieSweep
  <2>1. /\ UNCHANGED <<entry, order, got, old, conf, feedCmd>>
        /\ send' = [m \in Feed!Key |-> IF send[m].by = "sweep" THEN Feed!NoSend ELSE send[m]]
    BY <1>10 DEF Feed!DieSweep, Feed!rest
  <2>2. send' \in [Feed!Key -> Sends] /\ (\A m \in Feed!Key : send'[m] = send[m] \/ send'[m].at = "out") /\ conf'.dest \in Dest
    BY <1>1, <1>2, <2>1 DEF FeedTyped
  <2> QED
    BY <2>1, <2>2, FeedQuiet DEF FeedPlace
<1>11. CASE (\E d \in Dest : Feed!Check(d)) \/ Feed!Write \/ Feed!Disable \/ Feed!Mute
  <2>1. UNCHANGED <<entry, order, got, old, send>>
    BY <1>11 DEF Feed!Check, Feed!Write, Feed!Disable, Feed!Mute
  <2>2. FeedPlace'
    <3>1. ASSUME NEW d \in Dest, Feed!Check(d) PROVE FeedPlace'
      BY <3>1 DEF FeedPlace, Feed!Check
    <3>2. CASE Feed!Write
      BY <3>2 DEF FeedPlace, Feed!Write
    <3>3. CASE Feed!Disable
      BY <3>3 DEF FeedPlace, Feed!Disable
    <3>4. CASE Feed!Mute
      BY <3>4 DEF FeedPlace, Feed!Mute
    <3> QED
      BY <1>11, <3>1, <3>2, <3>3, <3>4
  <2>3. send' \in [Feed!Key -> Sends] /\ conf'.dest \in Dest
    BY <1>1, <2>1, <2>2 DEF FeedTyped, FeedPlace
  <2> QED
    BY <2>1, <2>2, <2>3, FeedQuiet
<1> QED
  BY <1>3, <1>4, <1>5, <1>6, <1>7, <1>8, <1>9, <1>10, <1>11
  DEF Feed!Next, Feed!Send, Feed!Receipt, feedVars, Feed!vars

LEMMA FeedCounts == ASSUME NEW S PROVE Feed!Cardinality(S) = Cardinality(S)
BY DEF Feed!Cardinality, Cardinality

\* The parts of the property follow from the invariant.
LEMMA FeedMeans == FeedInv => Feed!Once /\ Feed!DeliveredIsTrue /\ Feed!Carried
<1> SUFFICES ASSUME FeedInv PROVE Feed!DeliveredIsTrue /\ Feed!Carried
  BY DEF FeedInv
<1> USE FeedKeys
<1>1. Feed!DeliveredIsTrue
  <2>1. ASSUME NEW f \in Fact, Said(f) = "delivered" PROVE \E d \in Dest : got[f][d] > 0
    <3>1. PICK d \in Dest : got[f][d] # 0
      BY <2>1 DEF FeedInv, FeedComes, Come
    <3>2. got[f][d] \in Nat
      BY DEF FeedInv, FeedTyped
    <3> QED
      BY <3>1, <3>2
  <2> QED
    BY <2>1 DEF Feed!DeliveredIsTrue, Said
<1>2. Feed!Carried
  <2>1. ASSUME NEW f \in Fact, Said(f) = "digesting"
        PROVE  Feed!Cardinality({k \in Feed!With("pending") : k[2] = "digest" /\ f \in entry[k].batch}) = 1
    <3> DEFINE C == {k \in Feed!With("pending") : k[2] = "digest" /\ f \in entry[k].batch}
    <3>1. PICK k \in Feed!Key : f \in entry[k].batch /\ entry[k].st = "pending"
      BY <2>1 DEF FeedInv, FeedWaits
    <3>2. k[2] = "digest" /\ \A m \in Feed!Key : f \in entry[m].batch => m = k
      BY <3>1 DEF FeedInv, FeedMembers
    <3>3. C = {k}
      BY <3>1, <3>2 DEF Feed!With
    <3> HIDE DEF C
    <3>4. Cardinality(C) = 1
      BY <3>3, FS_Singleton
    <3>5. Feed!Cardinality(C) = 1
      BY <3>4, FeedCounts
    <3> QED
      BY <3>5 DEF C
  <2> QED
    BY <2>1 DEF Feed!Carried, Said
<1> QED
  BY <1>1, <1>2

\* Of the feed of notices, for any facts, destinations, attempts and commands: no fact reaches the
\* observer twice, the ledger says "delivered" only of what has come, and a fact is being digested
\* exactly while one unanswered digest carries it, whatever commands and claims overlap.  That each
\* comes only to the place it was claimed for holds where no change of the destination overlaps a
\* claim (MovedFeed has Overlap FALSE): cli.py:2709 changes it under claims that are still out.
THEOREM FeedIsTrueHolds == PartSpec => []FeedIsTrue
<1> DEFINE Inv == /\ part = "feed" => FeedInv /\ FeedPlace
                  /\ part = "moved_feed" => MovedInv
<1>1. PartInit => Inv
  <2> SUFFICES ASSUME PartInit PROVE Inv
    OBVIOUS
  <2>1. CASE part = "moved_feed"
    BY <2>1, MovedInit DEF PartInit
  <2>2. CASE part = "feed"
    <3>1. Feed!Init
      BY <2>2 DEF PartInit
    <3>2. PICK d \in Dest : conf = [on |-> TRUE, dest |-> d, mute |-> FALSE] /\ feedCmd = [at |-> "out", to |-> d]
      BY <3>1 DEF Feed!Init
    <3>3. FeedPlace
      BY <3>2 DEF FeedPlace
    <3> QED
      BY <2>2, <3>1, <3>3, FeedInit
  <2> QED
    BY <2>1, <2>2
<1>2. Inv /\ [PartNext]_partVars => Inv'
  <2> SUFFICES ASSUME Inv, [PartNext]_partVars PROVE Inv'
    OBVIOUS
  <2>1. part' = part
    BY DEF PartNext, partVars
  <2>2. CASE part = "feed"
    <3>1. [Feed!Next]_feedVars
      BY <2>2 DEF PartNext, partVars
    <3> QED
      BY <2>1, <2>2, <3>1, FeedStep
  <2>3. CASE part = "moved_feed"
    <3>1. [MovedFeed!Next]_feedVars
      BY <2>3 DEF PartNext, partVars
    <3> QED
      BY <2>1, <2>3, <3>1, MovedStep
  <2> QED
    BY <2>1, <2>2, <2>3
<1>3. Inv => FeedIsTrue
  BY FeedMeans DEF FeedIsTrue, MovedInv
<1> QED
  BY <1>1, <1>2, <1>3, PTL DEF PartSpec
=============================================================================
