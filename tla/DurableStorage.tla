---------------------------- MODULE DurableStorage ----------------------------
(***************************************************************************)
(* The Storage implementations (src/core/storage.cpp, src/session): the    *)
(* in-memory jar, the Tokyo Cabinet one, and the encrypted one, which      *)
(* keeps its cookies as one record and its key/value pairs one by one in   *)
(* the local stores of a Tokyo Cabinet backend.  The jars are driven in    *)
(* lockstep, so that they can be compared; a process opens the files,      *)
(* works, and closes them or is killed, any number of times.  reference is *)
(* the in-memory jar of a host that lives for ever.                        *)
(***************************************************************************)
EXTENDS Integers, Sequences, FiniteSets, Positions

CONSTANTS
  Domains,       \* host names
  Under,         \* pairs: a host and a domain it is a subdomain of
  Origins,       \* URLs that set and ask: host, https, path
  Cookies,       \* what hosts set: name, domain (or NoDomain), path, secure, expires
  NoDomain,
  Never,         \* the expiry of a session cookie
  PathPrefix,    \* pairs: a request path and a cookie path that matches it
  Passwords,
  StoreSessions, \* ids of sessions with local and session storage
  MaxNow,        \* bound: the clock
  MaxStoreOps    \* bound: operations on the stores

ASSUME StorageConstants ==
  /\ Under \subseteq Domains \X Domains /\ NoDomain \notin Domains
  /\ MaxNow \in Nat /\ MaxStoreOps \in Nat

Shut == "shut"
Nothing == [password |-> Shut, value |-> <<>>]     \* no record

VARIABLES
  now,        \* std::time
  opened,     \* the password of the running process, or Shut
  reference,  \* an InMemoryCookieJar's cookies_
  encrypted,  \* EncryptedCookieJar::cookies_
  record,     \* the encrypted cookie record: its password and cookies
  tcb,        \* TCBCookieJar's database: cookies by key
  wrapped,    \* EncryptedStorage::Impl::local_stores
  backends,   \* TCBStorage::Impl::local_stores, less the cookie store
  local,      \* each session's database: a password and a value
  volatile,   \* each session's session storage, likewise
  written,    \* history: the last value set in each local store
  onDisk,     \* the files as they were when the process opened them
  lost,       \* history: a write failed, the process was killed, or another password wrote
  storeOps

StoreVars == <<now, opened, reference, encrypted, record, tcb, wrapped, backends, local, volatile,
               written, onDisk, lost, storeOps>>

-----------------------------------------------------------------------------
(* The rules the three jars repeat *)
DomainMatches(c, host) ==
  host = c.domain \/ (~c.host_only /\ <<host, c.domain>> \in Under)
Scoped(origin, c) ==
  [name |-> c.name, path |-> c.path, secure |-> c.secure, expires |-> c.expires,
   domain |-> IF c.domain = NoDomain THEN origin.host ELSE c.domain, host_only |-> c.domain = NoDomain]
Expired(c) == c.expires # Never /\ c.expires <= now
Matches(c, origin) ==
  /\ ~Expired(c) /\ DomainMatches(c, origin.host)
  /\ c.secure => origin.https
  /\ <<origin.path, c.path>> \in PathPrefix
Key(c) == <<c.domain, c.path, c.name>>

(* set, of the jars that keep a list *)
Replaced(jar, c) ==
  LET others == AtPositions(jar, {i \in DOMAIN jar : Key(jar[i]) # Key(c)})
  IN  IF Expired(c) THEN others ELSE Append(others, c)
(* TCBCookieJar::set: put or out *)
Put(db, c) ==
  LET keys == {k \in DOMAIN db : k # Key(c)}
  IN  [k \in keys \cup (IF Expired(c) THEN {} ELSE {Key(c)}) |-> IF k = Key(c) THEN c ELSE db[k]]

(* get, as a set: the order of cookies with paths of the same length        *)
(* differs between the jars.                                                *)
ListGet(jar, origin) == {jar[i] : i \in {k \in DOMAIN jar : Matches(jar[k], origin)}}
TCBGet(db, origin) == {db[k] : k \in {j \in DOMAIN db : Matches(db[j], origin)}}

(* encrypt_value and decrypt_value: a value comes out under the password it *)
(* went in with, and nothing under another.                                 *)
Envelope(password, value) == [password |-> password, value |-> value]
Opens(envelope) == envelope # Nothing /\ envelope.password = opened
Decrypted(envelope, password) == IF envelope.password = password THEN envelope.value ELSE <<>>

-----------------------------------------------------------------------------
StoreInit ==
  /\ now = 0 /\ opened = Shut /\ reference = <<>> /\ encrypted = <<>> /\ record = Nothing
  /\ tcb = <<>> /\ wrapped = {} /\ backends = {} /\ lost = FALSE /\ storeOps = 0
  /\ local = [s \in StoreSessions |-> Nothing] /\ volatile = local /\ written = local
  /\ onDisk = [record |-> Nothing, tcb |-> <<>>, local |-> local]

Running == opened # Shut /\ storeOps < MaxStoreOps /\ storeOps' = storeOps + 1

(* The constructors: the encrypted jar reads its record; one that does not  *)
(* open leaves it empty.                                                    *)
OpenStorage(password) ==
  /\ opened = Shut /\ opened' = password
  /\ encrypted' = Decrypted(record, password)
  /\ onDisk' = [record |-> record, tcb |-> tcb, local |-> local]
  /\ UNCHANGED <<now, reference, record, tcb, wrapped, backends, local, volatile, written, lost, storeOps>>

(* CookieJar::set: what save_locked writes is all the jar holds.  A failing *)
(* database throws: before the change in one jar, after it in the other.    *)
SetCookie(origin, cookie) ==
  LET c == Scoped(origin, cookie) IN
  /\ Running
  /\ IF cookie.domain # NoDomain /\ ~DomainMatches(c, origin.host)
     THEN UNCHANGED <<reference, encrypted, record, tcb, lost>>
     ELSE /\ reference' = Replaced(reference, c) /\ encrypted' = Replaced(encrypted, c)
          /\ \/ /\ tcb' = Put(tcb, c) /\ record' = Envelope(opened, Replaced(encrypted, c))
                /\ lost' = (lost \/ (record # Nothing /\ ~Opens(record)))
             \/ UNCHANGED <<tcb, record>> /\ lost' = TRUE
  /\ UNCHANGED <<now, opened, wrapped, backends, local, volatile, written, onDisk>>
ClearCookies ==
  /\ Running /\ reference' = <<>> /\ encrypted' = <<>> /\ tcb' = <<>> /\ record' = Nothing
  /\ UNCHANGED <<now, opened, wrapped, backends, local, volatile, written, onDisk, lost>>

(* local_storage and session_storage: a wrapper, and the backend's store    *)
(* under it, opened when first asked for; set, remove and clear go through. *)
LocalStorage(s) == wrapped' = wrapped \cup {s} /\ backends' = backends \cup {s}
SetLocal(s) ==
  /\ Running /\ LocalStorage(s) /\ local' = [local EXCEPT ![s] = Envelope(opened, <<storeOps>>)]
  /\ written' = [written EXCEPT ![s] = Envelope(opened, <<storeOps>>)]
  /\ UNCHANGED <<now, opened, reference, encrypted, record, tcb, volatile, onDisk, lost>>
RemoveLocal(s) ==
  /\ Running /\ LocalStorage(s) /\ local' = [local EXCEPT ![s] = Nothing]
  /\ written' = [written EXCEPT ![s] = Nothing]
  /\ UNCHANGED <<now, opened, reference, encrypted, record, tcb, volatile, onDisk, lost>>
SetSession(s) ==
  /\ Running /\ volatile' = [volatile EXCEPT ![s] = Envelope(opened, <<storeOps>>)]
  /\ UNCHANGED <<now, opened, reference, encrypted, record, tcb, wrapped, backends, local, written, onDisk, lost>>

(* Mutant: release_session keeps the encrypted wrapper. *)
StaleWrapper(s) == wrapped

(* release_session: the wrappers first, then the backend closes the local   *)
(* database, which writes it out, and forgets the session's.                *)
Unwrapped(s) == wrapped \ {s}
ReleaseSession(s) ==
  /\ Running /\ wrapped' = Unwrapped(s) /\ backends' = backends \ {s}
  /\ volatile' = [volatile EXCEPT ![s] = Nothing]
  /\ onDisk' = [onDisk EXCEPT !.local[s] = local[s]]
  /\ UNCHANGED <<now, opened, reference, encrypted, record, tcb, local, written, lost>>

(* The destructors close every database. *)
CloseStorage ==
  /\ opened # Shut /\ opened' = Shut /\ encrypted' = <<>> /\ wrapped' = {} /\ backends' = {}
  /\ volatile' = [s \in StoreSessions |-> Nothing]
  /\ UNCHANGED <<now, reference, record, tcb, local, written, onDisk, lost, storeOps>>
(* A database that was not closed holds what it held when it was opened or  *)
(* what was written since: nothing syncs it.                                *)
KillStorage ==
  /\ opened # Shut /\ opened' = Shut /\ encrypted' = <<>> /\ wrapped' = {} /\ backends' = {}
  /\ volatile' = [s \in StoreSessions |-> Nothing] /\ lost' = TRUE
  /\ record' \in {record, onDisk.record} /\ tcb' \in {tcb, onDisk.tcb}
  /\ local' \in {f \in [StoreSessions -> {local[s] : s \in StoreSessions} \cup {onDisk.local[s] : s \in StoreSessions}] :
                   \A s \in StoreSessions : f[s] \in {local[s], onDisk.local[s]}}
  /\ UNCHANGED <<now, reference, written, onDisk, storeOps>>
PassTime ==
  /\ opened # Shut /\ now < MaxNow /\ now' = now + 1
  /\ UNCHANGED <<opened, reference, encrypted, record, tcb, wrapped, backends, local, volatile,
                 written, onDisk, lost, storeOps>>

StoreNext ==
  \/ CloseStorage \/ KillStorage \/ PassTime \/ ClearCookies
  \/ \E p \in Passwords : OpenStorage(p)
  \/ \E o \in Origins, c \in Cookies : SetCookie(o, c)
  \/ \E s \in StoreSessions : SetLocal(s) \/ RemoveLocal(s) \/ SetSession(s) \/ ReleaseSession(s)
StoreSpec == StoreInit /\ [][StoreNext]_StoreVars

-----------------------------------------------------------------------------
StoreTypeOK ==
  /\ now \in 0..MaxNow /\ opened \in Passwords \cup {Shut} /\ storeOps \in 0..MaxStoreOps
  /\ wrapped \subseteq StoreSessions /\ backends \subseteq StoreSessions
  /\ \A s \in StoreSessions : local[s] = Nothing \/ local[s].password \in Passwords

(* The jars are exchangeable: as long as no write failed, no process was    *)
(* killed and one password was used, the in-memory, the Tokyo Cabinet and   *)
(* the encrypted jar answer every URL with the same cookies, across         *)
(* replacements, expiry, restarts and clears.  Local storage keeps what was *)
(* last set across release_session and restarts; and no wrapper is left on  *)
(* a backend store that was closed.                                         *)
StoresAgree ==
  /\ ~lost => \A o \in Origins :
       /\ TCBGet(tcb, o) = ListGet(reference, o)
       /\ opened # Shut /\ (record = Nothing \/ Opens(record)) =>
            ListGet(encrypted, o) = ListGet(reference, o)
  /\ ~lost => local = written
  /\ wrapped \subseteq backends
=============================================================================
