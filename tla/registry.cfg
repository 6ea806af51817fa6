\* t1 builds and freezes; t2 and t3 read and (as tests do) register; callbacks
\* re-enter and panic.  A callback under the mutex that calls the library again
\* blocks its own thread, and with it everybody who waits: the system may stop.
CONSTANTS
  t1 = t1
  k1 = k1
  old = old
  new = new
  json = json
  label = label
  Keys = {k1}
  Types = {old, new}
  Data = {d1}
  Versions = {1, 2}
  Codecs = {json}
  Bincode = Bincode
  Metas = {label}
  NoDecoder = NoDecoder
  NotRegistered = NotRegistered
  Threads = {t1, t2, t3}
  Builders = {t1}
  Nobody = Nobody
  NotFrozen = NotFrozen
  NoBuilder = NoBuilder
  Registrations <- MCRegistrations
  Migrations <- MCMigrations
  MaxCalls = 2
  MaxTestWrites = 1
CHECK_DEADLOCK FALSE
SPECIFICATION Spec
INVARIANTS
  TypeOK
  MapsAreSound
  DeadlockNeedsReentry
PROPERTIES
  ViewsAreStable
  RegistrationsAreKept
  ServedOnceFrozen
