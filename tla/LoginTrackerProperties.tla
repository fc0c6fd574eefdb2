----------------------- MODULE LoginTrackerProperties -----------------------
(***************************************************************************)
(* What the tracker must guarantee against any sequence of submissions.    *)
(***************************************************************************)
EXTENDS LoginTracker

\* Entries keep their types, no address is tracked twice, and the store never
\* outgrows its bound (_evict).
TypeOK ==
  /\ lock_seconds \in LockTimes
  /\ entries \in Seq(Entry)
  /\ \A i, j \in DOMAIN entries : entries[i].email = entries[j].email => i = j
  /\ Len(entries) <= max_accounts
  /\ req \in [Session -> Address \cup {Idle}]

\* The store is in the order of the last touch, so what _evict drops first is
\* what was touched longest ago (record_failure, _evict).
OldestFirst ==
  \A i, j \in DOMAIN entries : i < j => entries[i].touched >= entries[j].touched

\* The logins that may still report a wrong password for an address.
InFlight(email) == {s \in Session : req[s] = email}

\* The lock falls in time: as long as the store remembers an address, it is
\* locked from the threshold's failure on and not before, and what is counted
\* beyond comes from logins that had passed the check, which add one each at
\* most (is_locked, record_failure).  It is a bound on what the store counts: a
\* right password, a lock that has run out, expiry and eviction forget the
\* address and its count.
LockInTime ==
  \A i \in DOMAIN entries :
    LET e == entries[i]
    IN  /\ e.left # NoLock <=> e.count >= threshold
        /\ e.count >= threshold =>
             e.count + Cardinality(InFlight(e.email)) < threshold + Cardinality(Session)

\* A login that had passed the check proves to have the right password.
RightFor(email) ==
  \E s \in Session : req[s] = email /\ req'[s] = Idle /\ entries' = Forgotten(email)

\* A login at another address fails; the store has no room for that one and
\* nothing that may expire, and the address is its oldest.
PushedOut(email) ==
  /\ \E s \in Session : /\ req[s] \notin {email, Idle} /\ req'[s] = Idle
                        /\ entries' = record_failure(req[s])
  /\ Len(entries) = max_accounts
  /\ \A i \in DOMAIN entries : Active(entries[i]) \/ entries[i].touched < ttl_seconds
  /\ entries[1].email = email

Released(email) == Locked(email) /\ ~Locked(email)'
TimeIsUp(email) == EntryOf(email).left = 1 /\ req' = req

\* A lock ends when its time is up, when a login that was already past the
\* check had the right password, or when a failure at another address pushes
\* it out of a full store as the oldest; a wrong password at its own address
\* never lifts it (_expired, _evict, record_failure, reset).  That a running
\* lock can be pushed out is what the code does and its comment in _evict says,
\* not what tests/test_security.py:491 promises; attempts at a locked address
\* are refused unrecorded and do not make its entry any younger.
LockHolds ==
  [][\A email \in Address :
       Released(email) => TimeIsUp(email) \/ RightFor(email) \/ PushedOut(email)]_vars

\* Whatever is submitted meanwhile, a locked address is open again some time
\* (authenticate does not record the attempts it refuses).
LockEnds == \A email \in Address : Locked(email) ~> ~Locked(email)

=============================================================================
