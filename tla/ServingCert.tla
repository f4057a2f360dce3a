----------------------------- MODULE ServingCert -----------------------------
(***************************************************************************)
(* The webhook's serving certificate: ferrum-admission/src/serving_cert.rs.*)
(* A poll compares the stamps of the two files, reads certificate and key  *)
(* one after the other, checks them against the certificate in use and the *)
(* issuer of process start, swaps, and rolls back a rotation that made     *)
(* things worse.  The kubelet rotates the mount at any step.               *)
(*                                                                         *)
(* Abstracted: a pair is a model value with its facts (names, issuer,      *)
(* expiry); a stamp is the number of the rotation that wrote the file.     *)
(* The wall clock is the one of BreakGlass: one process reads both.        *)
(***************************************************************************)
EXTENDS BreakGlass

CONSTANTS
  Pair,                        \* certificates, each with its own key
  Names, IssuerOf, NotAfter,   \* CertFacts of each, functions of Pair
  SERVING_CERT_WARN_DAYS,      \* in ticks of the clock
  MaxRotations                 \* bound on rotations of the mount

ASSUME ServingCertAssumption ==
  /\ NotAfter \in [Pair -> Int] /\ SERVING_CERT_WARN_DAYS \in Nat /\ MaxRotations \in Nat

VARIABLES
  tlsMount,    \* [cert, key, stamp]: what the two paths resolve to
  served,      \* TlsSource.loaded
  previous,    \* TlsSource.previous: {} or {[pair, warned]}
  pinned,      \* TlsSource.pinned_issuer
  warned,      \* Loaded.warned of the served pair
  tlsStat,     \* the stamp the poll remembers: {} before the first
  tlsPoll,     \* the poll in progress: [pc, seen, cert, before]
  tlsMissed    \* history: rotations whose material a failing read kept out

tlsVars == <<tlsMount, served, previous, pinned, warned, tlsStat, tlsPoll, tlsMissed>>

TlsIdle == [pc |-> "idle", cert |-> "none", before |-> "none"]

-----------------------------------------------------------------------------
\* What the walk over the DER of a certificate keeps of it.
certificate_facts(pair) ==
  [not_after |-> NotAfter[pair], dns_names |-> Names[pair], issuer |-> IssuerOf[pair]]

expires_within_days(pair, now) ==
  certificate_facts(pair).not_after <= now + SERVING_CERT_WARN_DAYS

coversNames(new, old) == certificate_facts(old).dns_names \subseteq certificate_facts(new).dns_names

is_stale_rotation(before, after, now) ==
  expires_within_days(after, now) /\ ~expires_within_days(before, now)

\* read_material's own checks, before anything is compared with what is served.
Usable(pair, now) ==
  LET facts == certificate_facts(pair) IN facts.not_after > now /\ facts.dns_names # {}

\* load at process start pins the issuer of the first certificate.
ServingCertInit ==
  /\ \E p \in Pair :
       /\ Usable(p, clock)
       /\ tlsMount = [cert |-> p, key |-> p, stamp |-> 0]
       /\ served = p /\ pinned = certificate_facts(p).issuer
       /\ warned = expires_within_days(p, clock)
  /\ previous = {} /\ tlsStat = {} /\ tlsPoll = TlsIdle /\ tlsMissed = {}

\* load at a restart: the process exits unless the mount holds a usable pair.
TlsLoad ==
  /\ tlsMount.cert # "none" /\ tlsMount.cert = tlsMount.key /\ Usable(tlsMount.cert, clock)
  /\ served' = tlsMount.cert /\ pinned' = certificate_facts(tlsMount.cert).issuer
  /\ warned' = expires_within_days(tlsMount.cert, clock)
  /\ previous' = {} /\ tlsStat' = {} /\ tlsPoll' = TlsIdle
  /\ UNCHANGED <<tlsMount, tlsMissed>>

\* check_expiry: one warning for the served material.
CheckExpiry(pair, already, now) == already \/ expires_within_days(pair, now)

\* Faulty variant: the stat tells only that the files are there.
TlsPollOnce ==
  /\ tlsPoll.pc = "idle"
  /\ warned' = CheckExpiry(served, warned, clock)
  /\ tlsStat = {}
  /\ tlsStat' = {tlsMount.stamp}
  /\ IF "none" \in {tlsMount.cert, tlsMount.key} THEN UNCHANGED tlsPoll
     ELSE tlsPoll' = [TlsIdle EXCEPT !.pc = "readCert", !.before = served]
  /\ UNCHANGED <<clock, tlsMount, served, previous, pinned, tlsMissed>>

\* One tick of poll_loop up to the remembered stamp.  An absent or unreadable mount
\* keeps the pair and only counts.
TlsPoll ==
  /\ tlsPoll.pc = "idle"
  /\ warned' = CheckExpiry(served, warned, clock)
  /\ tlsStat # {tlsMount.stamp}
  /\ tlsStat' = {tlsMount.stamp}
  /\ IF "none" \in {tlsMount.cert, tlsMount.key} THEN UNCHANGED tlsPoll
     ELSE tlsPoll' = [TlsIdle EXCEPT !.pc = "readCert", !.before = served]
  /\ UNCHANGED <<clock, tlsMount, served, previous, pinned, tlsMissed>>

\* A tick that finds the same stamp still checks the expiry of what is served.
TlsWarn ==
  /\ tlsPoll.pc = "idle" /\ tlsStat = {tlsMount.stamp}
  /\ ~warned /\ expires_within_days(served, clock) /\ warned' = TRUE
  /\ UNCHANGED <<clock, tlsMount, served, previous, pinned, tlsStat, tlsPoll, tlsMissed>>

TlsGivesUp == tlsPoll' = TlsIdle /\ UNCHANGED <<clock, tlsMount, served, previous, pinned, warned, tlsStat>>

\* read_material: the certificate, refused when expired or without a name.
ReadCert ==
  /\ tlsPoll.pc = "readCert"
  /\ \/ /\ tlsMount.cert # "none" /\ Usable(tlsMount.cert, clock)
        /\ tlsPoll' = [tlsPoll EXCEPT !.pc = "readKey", !.cert = tlsMount.cert]
        /\ UNCHANGED <<clock, tlsMount, served, previous, pinned, warned, tlsStat, tlsMissed>>
     \/ /\ tlsMount.cert = "none" \/ (tlsMount.cert # "none" /\ ~Usable(tlsMount.cert, clock))
        /\ TlsGivesUp /\ UNCHANGED tlsMissed

\* A file operation of read_material fails: the stamp is already remembered.
TlsReadFails ==
  /\ tlsPoll.pc \in {"readCert", "readKey"}
  /\ tlsMissed' = tlsMissed \cup tlsStat
  /\ TlsGivesUp

\* reload: the key must belong to the certificate (rustls refuses the pair
\* otherwise), no served name may be dropped, and the issuer is the pinned one.
Replaces(new, key) ==
  /\ new = key
  /\ coversNames(new, served)
  /\ certificate_facts(new).issuer = pinned

ReadKey ==
  /\ tlsPoll.pc = "readKey"
  /\ IF Replaces(tlsPoll.cert, tlsMount.key)
     THEN /\ served' = tlsPoll.cert
          /\ previous' = {[pair |-> served, warned |-> warned]}
          /\ warned' = expires_within_days(tlsPoll.cert, clock)
          /\ tlsPoll' = [tlsPoll EXCEPT !.pc = "compare"]
          /\ UNCHANGED <<clock, tlsMount, pinned, tlsStat>>
     ELSE TlsGivesUp
  /\ UNCHANGED tlsMissed

\* A rotation to material that expires sooner than the warning allows is undone,
\* unless what it replaced has expired meanwhile; the slot is empty afterwards.
CompareAndRollBack ==
  /\ tlsPoll.pc = "compare"
  /\ IF is_stale_rotation(tlsPoll.before, served, clock)
     THEN /\ previous' = {}
          /\ \E old \in previous :
               IF certificate_facts(old.pair).not_after > clock
               THEN served' = old.pair /\ warned' = old.warned
               ELSE UNCHANGED <<served, warned>>
     ELSE UNCHANGED <<served, warned, previous>>
  /\ tlsPoll' = TlsIdle
  /\ UNCHANGED <<clock, tlsMount, pinned, tlsStat, tlsMissed>>

TlsStep == TlsPoll \/ TlsWarn \/ ReadCert \/ ReadKey \/ CompareAndRollBack

\* The kubelet swaps the mount to another pair or to nothing; a reader that straddles
\* two swaps sees the certificate of one and the key of the other.
RotatePair ==
  /\ tlsMount.stamp < MaxRotations
  /\ \E p \in Pair \cup {"none"} :
       p # tlsMount.cert /\ tlsMount' = [cert |-> p, key |-> p, stamp |-> tlsMount.stamp + 1]
  /\ UNCHANGED <<clock, served, previous, pinned, warned, tlsStat, tlsPoll, tlsMissed>>

-----------------------------------------------------------------------------
(* Property.                                                               *)

=============================================================================
