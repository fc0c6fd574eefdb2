---------------------------- MODULE LoginTracker ----------------------------
(***************************************************************************)
(* The tracker of failed logins and the login handler that consults it.    *)
(* The tracker is one dictionary, kept in the order its entries were last  *)
(* touched and bounded in size; its methods run without an await, the      *)
(* handler's password check does not.                                      *)
(*                                                                         *)
(* Time is kept relative: an entry knows how long its lock has left and    *)
(* how long ago it was touched, and Tick moves both.                       *)
(***************************************************************************)
EXTENDS Integers, Sequences, FiniteSets

CONSTANTS
  Address,      \* addresses anybody may submit
  Session,      \* logins that may be in flight at once
  threshold,    \* settings.ACCOUNT_LOCK_AFTER_FAILURES
  LockTimes,    \* values of settings.ACCOUNT_LOCK_MINUTES to consider
  ttl_seconds,
  max_accounts

NoLock == -1
Idle == "idle"

ASSUME TrackerAssumption ==
  /\ threshold \in Nat \ {0} /\ ttl_seconds \in Nat /\ max_accounts \in Nat \ {0}
  /\ LockTimes \subseteq Nat \ {0}
  /\ IsFiniteSet(Session) /\ Idle \notin Address

VARIABLES
  lock_seconds,  \* the setting in force; it never changes
  entries,       \* the OrderedDict, oldest first
  req            \* the address each login is verifying a password for

vars == <<lock_seconds, entries, req>>

\* left is what remains of the lock: NoLock before the first one, 0 when it
\* has run out.  touched counts up to the TTL.
Entry ==
  [email : Address, count : Nat \ {0}, left : {NoLock} \cup (0 .. lock_seconds),
   touched : 0 .. ttl_seconds]

-----------------------------------------------------------------------------
Of(email) == {i \in DOMAIN entries : entries[i].email = email}
Tracked(email) == Of(email) # {}
EntryOf(email) == entries[CHOOSE i \in Of(email) : TRUE]

Active(e) == e.left \notin {NoLock, 0}
Locked(email) == Tracked(email) /\ Active(EntryOf(email))
RanOut(email) == Tracked(email) /\ EntryOf(email).left = 0

\* The items of s at the positions in I, in the order they have in s.
ItemsAt(s, I) ==
  LET upto[n \in 0 .. Len(s)] ==
        IF n = 0 THEN <<>> ELSE IF n \in I THEN Append(upto[n - 1], s[n]) ELSE upto[n - 1]
  IN  upto[Len(s)]

Without(s, email) == ItemsAt(s, {i \in DOMAIN s : s[i].email # email})

\* _expired: an active lock never expires early.
_expired_TouchedOnly(e) == e.touched >= ttl_seconds
_expired(e) == ~Active(e) /\ e.touched >= ttl_seconds

\* _evict: expired entries go, and then as many of the oldest as it takes for
\* the store to have room for one more.
Surplus_OneMore(s) == Len(s) - max_accounts
Surplus(s) == Len(s) - max_accounts + 1

_evict(s) ==
  LET fresh == ItemsAt(s, {i \in DOMAIN s : ~_expired(s[i])})
  IN  IF Surplus(fresh) <= 0 THEN fresh ELSE SubSeq(fresh, Surplus(fresh) + 1, Len(fresh))

LocksAt_Above(count) == count > threshold
LocksAt(count) == count >= threshold

\* An existing key keeps its place in an OrderedDict until it is moved.
Put_InPlace(s, e) ==
  IF \E i \in DOMAIN s : s[i].email = e.email
  THEN [i \in DOMAIN s |-> IF s[i].email = e.email THEN e ELSE s[i]]
  ELSE Append(s, e)
Put(s, e) == Append(Without(s, e.email), e)

record_failure(email) ==
  LET count == IF Tracked(email) THEN EntryOf(email).count + 1 ELSE 1
      kept  == IF Tracked(email) THEN entries ELSE _evict(entries)
  IN  Put(kept, [email |-> email, count |-> count, touched |-> 0,
                 left |-> IF LocksAt(count) THEN lock_seconds ELSE NoLock])

\* reset
Forgotten(email) == Without(entries, email)

-----------------------------------------------------------------------------
(***************************************************************************)
(* authenticate                                                            *)
(***************************************************************************)

\* A locked address is refused without a look at the password and without a
\* record of the attempt.
OnRefused_Extended(email) ==
  Put(entries, [EntryOf(email) EXCEPT !.left = lock_seconds, !.touched = 0])
OnRefused(email) == entries

\* is_locked, which forgets a lock that has run out, and then the query and
\* the password check.
Attempt(s) ==
  /\ req[s] = Idle
  /\ \E email \in Address :
       \/ /\ Locked(email)
          /\ entries' = OnRefused(email)
          /\ UNCHANGED req
       \/ /\ ~Locked(email)
          /\ entries' = IF RanOut(email) THEN Forgotten(email) ELSE entries
          /\ req' = [req EXCEPT ![s] = email]
  /\ UNCHANGED lock_seconds

Finish(s, kept) ==
  /\ req[s] # Idle
  /\ entries' = kept
  /\ req' = [req EXCEPT ![s] = Idle]
  /\ UNCHANGED lock_seconds

\* An unknown address or a wrong password; the right one; the right one of an
\* account that is not active, or a request that is dropped.
Wrong(s) == Finish(s, record_failure(req[s]))
Right(s) == Finish(s, Forgotten(req[s]))
Dropped(s) == Finish(s, entries)

Tick ==
  /\ entries' =
       [i \in DOMAIN entries |->
          [entries[i] EXCEPT !.left    = IF @ \in {NoLock, 0} THEN @ ELSE @ - 1,
                             !.touched = IF @ < ttl_seconds THEN @ + 1 ELSE @]]
  /\ UNCHANGED <<lock_seconds, req>>

-----------------------------------------------------------------------------
Init ==
  /\ lock_seconds \in LockTimes
  /\ entries = <<>>
  /\ req = [s \in Session |-> Idle]

Next == Tick \/ \E s \in Session : Attempt(s) \/ Wrong(s) \/ Right(s) \/ Dropped(s)

\* Time passes, whatever people submit.
Spec == Init /\ [][Next]_vars /\ WF_vars(Tick)

=============================================================================
