----------------------------- MODULE WebhookPki -----------------------------
(***************************************************************************)
(* `ferrumctl gen-webhook-pki` (ferrum-cli/src/gen_pki.rs over ferrum-     *)
(* crypto/src/x509.rs): the operator issues a CA and a serving pair into a *)
(* directory, later a new leaf under the same CA, and applies what a run   *)
(* that succeeded wrote, in the order of deploy/admission/README.          *)
(*                                                                         *)
(* Abstracted: a certificate is the record of what is compared; a PEM text *)
(* is the sequence of its blocks; a key is a number and a signature names  *)
(* the key that made it.  A fallible function answers a set: empty for an  *)
(* error.  A run that is refused before its first write changes nothing    *)
(* and is no step.  Each write may fail, and then leaves nothing or a part *)
(* of its file.  The date is that of the machine the operator is at: it    *)
(* moves either way.                                                       *)
(***************************************************************************)
EXTENDS Integers, Sequences

CONSTANTS
    DAY,                     \* ticks of a day
    NOT_BEFORE_BACKDATE,     \* ticks
    MAX_SERVING_CERT_DAYS, SERVING_CERT_WARN_DAYS,
    PkiArgs,                 \* what the operator may ask for: GenPkiArgs
    Dirs,                    \* directories on the operator's machine
    MaxToday,                \* bound on the date
    MaxKeys                  \* bound on the keys ever generated

ASSUME PkiAssumption ==
    /\ DAY \in Nat \ {0} /\ NOT_BEFORE_BACKDATE \in Nat
    /\ SERVING_CERT_WARN_DAYS < MAX_SERVING_CERT_DAYS
    /\ MaxToday \in Nat /\ MaxKeys \in Nat

VARIABLES
    today,      \* SystemTime::now()
    keyCount,   \* keys generated so far, to draw a fresh one
    dirs,       \* directory -> its four files
    issue,      \* the run in progress, or the last one if it succeeded
    cluster     \* what is applied: the caBundle, and the Secret, with what its run was shown

pkiVars == <<today, keyCount, dirs, issue, cluster>>

-----------------------------------------------------------------------------
(* ferrum-crypto/src/x509.rs.                                              *)

base64_encode(text) == [b64 |-> text]
base64_decode(value) == IF "b64" \in DOMAIN value THEN {value.b64} ELSE {}

\* Every block is a certificate, and there is one.
pem_certificates(pem) ==
    IF pem # <<>> /\ \A i \in DOMAIN pem : pem[i].kind = "certificate" THEN {pem} ELSE {}

single(pem) == {certs[1] : certs \in {c \in pem_certificates(pem) : Len(c) = 1}}

service_dns_names(service, namespace) ==
    <<<<service>>, <<service, namespace>>, <<service, namespace, "svc">>,
      <<service, namespace, "svc", "cluster", "local">>>>

not_before == today - NOT_BEFORE_BACKDATE

check_lifetime(not_after) ==
    not_after >= today /\ (not_after - today) \div DAY <= MAX_SERVING_CERT_DAYS

days_until_expiry(pem) == {(cert.until - today) \div DAY : cert \in single(pem)}

expires_within(pem, days) == \E cert \in single(pem) : cert.until <= today + days * DAY

verify_chain(serving, ca) ==
    \E leaf \in single(serving.cert_pem), issuer \in single(ca.cert_pem) :
        /\ issuer.ca /\ ~leaf.ca
        /\ leaf.issuer = issuer.subject
        /\ issuer.from <= leaf.from /\ leaf.until <= issuer.until
        /\ "serverAuth" \in leaf.eku
        /\ leaf.san # <<>> /\ leaf.san = serving.dns_names
        /\ leaf.signedBy = issuer.key

\* The same for two texts read back, the names taken from the leaf.
verify_issued_pair(ca_pem, leaf_pem) ==
    \E leaf \in single(leaf_pem) :
        verify_chain([cert_pem |-> leaf_pem, dns_names |-> leaf.san], [cert_pem |-> ca_pem])

issue_ca(name, not_after, key) ==
    {[cert_pem |-> <<[kind |-> "certificate", subject |-> n, issuer |-> n, key |-> key,
                      signedBy |-> key, ca |-> TRUE, san |-> <<>>, eku |-> {},
                      from |-> not_before, until |-> not_after]>>,
      key_pem |-> key]
        : n \in {x \in {name} : x # <<>> /\ check_lifetime(not_after)}}

\* The issuer a leaf is signed as: the subject of the certificate, the key of the file.
load_ca(ca) == {[subject |-> cert.subject, key |-> ca.key_pem]
                    : cert \in {c \in single(ca.cert_pem) : c.ca}}

\* Material that does not verify is not issued.
issue_serving_cert(ca, service, namespace, not_after, key) ==
    LET names == service_dns_names(service, namespace)
        Signed(by) == [cert_pem |-> <<[kind |-> "certificate", subject |-> names[3],
                                       issuer |-> by.subject, key |-> key, signedBy |-> by.key,
                                       ca |-> FALSE, san |-> names, eku |-> {"serverAuth"},
                                       from |-> not_before, until |-> not_after]>>,
                       key_pem |-> key, dns_names |-> names]
    IN  {m \in {Signed(by) : by \in load_ca(ca)} :
            service # <<>> /\ namespace # "" /\ check_lifetime(not_after) /\ verify_chain(m, ca)}

-----------------------------------------------------------------------------
(* gen_pki.rs.                                                             *)

Files == {"secret", "rendered", "ca.crt", "ca.key"}
EmptyDir == [f \in Files |-> {}]
Whole(body, shown) == {[whole |-> TRUE, body |-> body, shown |-> shown]}
Part == {[whole |-> FALSE]}
BodyOf(dir, f) == {x.body : x \in {y \in dirs[dir][f] : y.whole}}

NoRun == [pc |-> "idle", args |-> {}, at |-> 0, shown |-> {}, todo |-> <<>>]

Rotating(args) == args.ca_cert # {}

\* A CA on its last two days, or one the leaf would outlive, is refused.
reusable_ca(certDir, keyDir, days) ==
    {[cert_pem |-> cert, key_pem |-> key] :
        cert \in {c \in BodyOf(certDir, "ca.crt") :
                     \E left \in days_until_expiry(c) : left >= 2 /\ days < left},
        key \in BodyOf(keyDir, "ca.key")}

rendered_ca_bundle_matches(dir, bundle) == BodyOf(dir, "rendered") = {bundle}

\* Faulty variant: a rotation with nothing to compare goes ahead.
RequireIfRendered(args, bundle) ==
    \A d \in IF args.webhook_config # {} THEN args.webhook_config
             ELSE {e \in args.ca_cert \union {args.out_dir} : dirs[e]["rendered"] # {}} :
        rendered_ca_bundle_matches(d, bundle)

\* The file the operator names, or each rendered one beside the CA and the output.
require_applied_ca_bundle(args, bundle) ==
    IF args.webhook_config # {}
    THEN \A d \in args.webhook_config : rendered_ca_bundle_matches(d, bundle)
    ELSE LET beside == {d \in args.ca_cert \union {args.out_dir} : dirs[d]["rendered"] # {}}
         IN  beside # {} /\ \A d \in beside : rendered_ca_bundle_matches(d, bundle)

\* The configurations a run is told of: the one it makes, or what the operator has for it.
Shown(args, bundle) ==
    IF ~Rotating(args) THEN {bundle}
    ELSE UNION {BodyOf(d, "rendered") :
                  d \in IF args.webhook_config # {} THEN args.webhook_config
                        ELSE args.ca_cert \union {args.out_dir}}

secret_manifest(args, serving) ==
    [name |-> args.service \o <<"tls">>, namespace |-> {args.namespace},
     crt |-> {base64_encode(serving.cert_pem)}, key |-> base64_encode(serving.key_pem)]

\* The files still to be written, in order; nothing that exists is overwritten.
write_out_dir(args, secret, bundle, ca) ==
    IF Rotating(args) THEN <<[file |-> "secret", body |-> secret]>>
    ELSE <<[file |-> "secret", body |-> secret], [file |-> "rendered", body |-> bundle],
           [file |-> "ca.crt", body |-> ca.cert_pem], [file |-> "ca.key", body |-> ca.key_pem]>>

Overwrites(args, todo) == \E i \in DOMAIN todo : dirs[args.out_dir][todo[i].file] # {}

NotAfter(args) == today + args.days * DAY

\* The CA of a run: a new one for all the days there are, or the given one.
CaFor(args) ==
    IF Rotating(args)
    THEN UNION {reusable_ca(c, k, args.days) : <<c, k>> \in args.ca_cert \X args.ca_key}
    ELSE issue_ca(args.service \o <<"ca">>, today + MAX_SERVING_CERT_DAYS * DAY, keyCount + 1)

gen_webhook_pki(args) ==
    /\ issue.pc # "writing" /\ keyCount + 2 <= MaxKeys
    /\ args.days \in 1..MAX_SERVING_CERT_DAYS
    /\ args.ca_cert = {} <=> args.ca_key = {}
    /\ \E ca \in CaFor(args) :
       \E serving \in issue_serving_cert(ca, args.service, args.namespace, NotAfter(args),
                                         keyCount + 2) :
        LET bundle == base64_encode(ca.cert_pem)
            todo == write_out_dir(args, secret_manifest(args, serving), bundle, ca)
        IN  /\ verify_chain(serving, ca)
            /\ Rotating(args) => require_applied_ca_bundle(args, bundle)
            /\ ~Overwrites(args, todo)
            /\ issue' = [pc |-> "writing", args |-> {args}, at |-> today,
                         shown |-> Shown(args, bundle), todo |-> todo]
    /\ keyCount' = keyCount + 2
    /\ UNCHANGED <<today, dirs, cluster>>

OutDir == CHOOSE d \in {a.out_dir : a \in issue.args} : TRUE

\* write_private and fs::write: the next file, or the end of the run.
WriteFile ==
    /\ issue.pc = "writing"
    /\ dirs' = [dirs EXCEPT ![OutDir][Head(issue.todo).file] =
                                Whole(Head(issue.todo).body, issue.shown)]
    /\ issue' = [issue EXCEPT !.todo = Tail(@), !.pc = IF Len(issue.todo) = 1 THEN "ok" ELSE @]
    /\ UNCHANGED <<today, keyCount, cluster>>

WriteFileFails ==
    /\ issue.pc = "writing"
    /\ \E left \in {{}, Part} : dirs' = [dirs EXCEPT ![OutDir][Head(issue.todo).file] = left]
    /\ issue' = NoRun
    /\ UNCHANGED <<today, keyCount, cluster>>

-----------------------------------------------------------------------------
(* The operator, following deploy/admission/README.                        *)

PkiInit ==
    /\ today = 0 /\ keyCount = 0
    /\ dirs = [d \in Dirs |-> EmptyDir]
    /\ issue = NoRun
    /\ cluster = [trusts |-> {}, secret |-> {}]

ApplySecret ==
    /\ issue.pc = "ok"
    /\ cluster' = [cluster EXCEPT !.secret = {s \in dirs[OutDir]["secret"] : s.whole}]
    /\ cluster' # cluster
    /\ UNCHANGED <<today, keyCount, dirs, issue>>

\* The rendered configuration goes last.
ApplyConfig ==
    /\ issue.pc = "ok" /\ \E a \in issue.args : ~Rotating(a)
    /\ \E s \in cluster.secret : s.shown = issue.shown
    /\ cluster' = [cluster EXCEPT !.trusts = BodyOf(OutDir, "rendered")]
    /\ cluster' # cluster
    /\ UNCHANGED <<today, keyCount, dirs, issue>>

\* ca.key is moved out of the tree; old output is removed deliberately:
\* the Secret a rotation will not overwrite, a configuration once applied, or all of it.
MoveKey(d, e) ==
    /\ issue.pc # "writing" /\ dirs[d]["ca.key"] # {} /\ dirs[e]["ca.key"] = {}
    /\ dirs' = [dirs EXCEPT ![e]["ca.key"] = dirs[d]["ca.key"], ![d]["ca.key"] = {}]
    /\ UNCHANGED <<today, keyCount, issue, cluster>>

RemoveOutput(d, files) ==
    /\ issue.pc # "writing" /\ \E f \in files : dirs[d][f] # {}
    /\ dirs' = [dirs EXCEPT ![d] = [f \in Files |-> IF f \in files THEN {} ELSE dirs[d][f]]]
    /\ issue' = NoRun
    /\ UNCHANGED <<today, keyCount, cluster>>

SetDate(t) ==
    /\ issue.pc # "writing" /\ t # today /\ today' = t
    /\ UNCHANGED <<keyCount, dirs, issue, cluster>>

PkiNext ==
    \/ \E args \in PkiArgs : gen_webhook_pki(args)
    \/ WriteFile \/ WriteFileFails \/ ApplySecret \/ ApplyConfig
    \/ \E d, e \in Dirs : d # e /\ MoveKey(d, e)
    \/ \E d \in Dirs, files \in {{"secret"}, {"rendered"}, Files \ {"ca.key"}} :
            RemoveOutput(d, files)
    \/ \E t \in 0..MaxToday : SetDate(t)

LeafOf(secret) == UNION {base64_decode(text) : text \in secret.crt}

\* What an API server asks of a webhook (external): one authority of the bundle has
\* signed the leaf as a server of that name, for a time that lies in its own.
Trusts(bundle, secret) ==
    \E ca \in base64_decode(bundle), leaf \in LeafOf(secret) :
        \E i \in DOMAIN ca :
            /\ ca[i].ca /\ leaf[1].signedBy = ca[i].key /\ leaf[1].issuer = ca[i].subject
            /\ "serverAuth" \in leaf[1].eku
            /\ \E n \in DOMAIN leaf[1].san, ns \in secret.namespace :
                  /\ Tail(leaf[1].san[n]) = <<ns, "svc">>
                  /\ leaf[1].san[n][1] \o <<"tls">> = secret.name
            /\ ca[i].from <= leaf[1].from /\ leaf[1].until <= ca[i].until

=============================================================================
