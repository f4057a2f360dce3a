----------------------------- MODULE Envelope -----------------------------
(***************************************************************************)
(* The signed envelope around a bundle and its way over a mounted Secret.  *)
(* Four crates write or read it: the controller (bundle.rs, lib.rs),       *)
(* ferrumctl (fsig.rs, sign.rs, verify.rs), the agent (source.rs) and the  *)
(* webhook (bundle.rs); ferrum-crypto signs and verifies.                  *)
(*                                                                         *)
(* An envelope is the record of its fields; `whole` is false for bytes     *)
(* that end early or go on.  A key is its length and whose it is, a        *)
(* signature its length and what it was made of.  A file is the record of  *)
(* what its first bytes show it to be.  An Err is {}, an Ok the set of its *)
(* value.                                                                  *)
(***************************************************************************)
EXTENDS Wire

ED25519_PUBLIC_KEY_LEN == 32
ED25519_SECRET_KEY_LEN == 32
ED25519_SIGNATURE_LEN == 64
BUNDLE_SIGNATURE_CONTEXT == "FERRUM-POLICY-BUNDLE-v1"
BREAK_GLASS_CONTEXT == "FERRUM-BREAK-GLASS-GRANT-v1"
SIGNED_FORMAT == 1

Key(len, of) == [len |-> len, of |-> of]
Signature(len, by, context, over) == [len |-> len, by |-> by, context |-> context, over |-> over]
FsigFile(format, public_key, signature, raw, whole) ==
  [form |-> "FSIG", format |-> format, public_key |-> public_key, signature |-> signature,
   raw |-> raw, whole |-> whole]
PlainFile(form, raw) == [form |-> form, raw |-> raw]

-----------------------------------------------------------------------------
(* ferrum-crypto/src/lib.rs.  A digest is a function of the bytes alone;   *)
(* two texts have one digest only if they are one text.                    *)

bundle_digest(raw) == [sha256 |-> raw]
NoDigest == [sha256 |-> <<>>]     \* the empty text
is_all_zero(key) == key.of = "zeros"

parse_keypair(secret) == secret.len = ED25519_SECRET_KEY_LEN /\ ~is_all_zero(secret)
public_key_from_secret(secret) ==
  IF parse_keypair(secret) THEN {Key(ED25519_PUBLIC_KEY_LEN, secret.of)} ELSE {}
sign_bundle(raw, secret) ==
  IF parse_keypair(secret)
  THEN {Signature(ED25519_SIGNATURE_LEN, secret.of, BUNDLE_SIGNATURE_CONTEXT, raw)} ELSE {}

parse_public_key(key) == key.len = ED25519_PUBLIC_KEY_LEN /\ ~is_all_zero(key)
parse_signature(sig) == sig.len = ED25519_SIGNATURE_LEN

verify_bundle_signature(raw, sig, key) ==
  /\ parse_public_key(key) /\ parse_signature(sig)
  /\ sig.by = key.of /\ sig.context = BUNDLE_SIGNATURE_CONTEXT /\ sig.over = raw

\* The digest of an empty text is no digest.
verify_bundle_digest(raw, expected) == expected # NoDigest /\ bundle_digest(raw) = expected

-----------------------------------------------------------------------------
(* Writers.                                                                *)

\* ferrum-controller/src/bundle.rs.
encode_fsig_envelope(public_key, signature, payload) ==
  IF public_key.len # ED25519_PUBLIC_KEY_LEN \/ signature.len # ED25519_SIGNATURE_LEN THEN {}
  ELSE {FsigFile(SIGNED_FORMAT, public_key, signature, payload, TRUE)}

\* ferrum-cli/src/fsig.rs: the same checks in its own hand.
encode_fsig(raw, signature, public_key) ==
  IF signature.len # ED25519_SIGNATURE_LEN \/ public_key.len # ED25519_PUBLIC_KEY_LEN THEN {}
  ELSE {FsigFile(SIGNED_FORMAT, public_key, signature, raw, TRUE)}

\* The gates a signed FRMB carries in its head: {} when it is none.
parse_framb_abis(raw) ==
  IF Len(raw) >= 4 /\ raw[1] = FRMB /\ raw[2] = BUNDLE_FORMAT THEN {<<raw[3], raw[4]>>} ELSE {}

\* A SignedBundle of the controller.
sign_compiled(raw, secret) ==
  {[raw |-> raw, signature |-> sig, public_key |-> key, digest |-> bundle_digest(raw)] :
     sig \in sign_bundle(raw, secret), key \in public_key_from_secret(secret),
     abis \in parse_framb_abis(raw)}
compile_and_sign(spec, secret) ==
  UNION {sign_compiled(raw, secret) : raw \in compile_cluster_policy(spec)}
compile_and_sign_namespaced(spec, secret) ==
  UNION {sign_compiled(raw, secret) : raw \in compile_namespaced_policy(spec)}

encode(bundle) == encode_fsig_envelope(bundle.public_key, bundle.signature, bundle.raw)
verify_signed_bundle(bundle, root) == verify_bundle_signature(bundle.raw, bundle.signature, root)

\* The Secret: written only when the signature verifies under the configured root.
bundle_secret_named(bundle, root) ==
  IF verify_signed_bundle(bundle, root)
  THEN {[bundle |-> {f}, digest |-> {PlainFile("text", bundle.digest)}] : f \in encode(bundle)}
  ELSE {}

\* ferrumctl compile and ferrumctl sign: only a bare FRMB is signed; the digest is
\* printed, for the operator to put beside it.
compile_yaml(spec, kind) ==
  {PlainFile("FRMB", raw) :
     raw \in CASE kind = "cluster" -> compile_cluster_policy(spec)
              [] kind = "namespaced" -> compile_namespaced_policy(spec)}
read_secret_key(secret) == IF secret.len = ED25519_SECRET_KEY_LEN THEN {secret} ELSE {}
sign_file(file, secret) ==
  IF file.form # "FRMB" THEN {}
  ELSE {[bundle |-> {f}, digest |-> {PlainFile("text", bundle_digest(file.raw))}] :
          f \in UNION {UNION {encode_fsig(file.raw, sig, key) :
                                sig \in sign_bundle(file.raw, s), key \in public_key_from_secret(s)} :
                         s \in read_secret_key(secret)}}

-----------------------------------------------------------------------------
(* Readers of the envelope, one per crate.                                 *)

\* What is left of a reader over bytes: every field is there, and nothing follows.
RawReader(file) == file.whole
admission_RawReader(file) == file.whole
cli_Reader(file) == file.whole
take_len_prefixed(file) == file.whole

LensRight(file) ==
  file.public_key.len = ED25519_PUBLIC_KEY_LEN /\ file.signature.len = ED25519_SIGNATURE_LEN

\* ferrum-agent/src/source.rs
decode_fsig(file) ==
  IF file.form = "FSIG" /\ file.format = SIGNED_FORMAT /\ RawReader(file) /\ LensRight(file)
  THEN {file} ELSE {}
\* ferrum-admission/src/bundle.rs
admission_decode_fsig(file) ==
  IF file.form = "FSIG" /\ file.format = SIGNED_FORMAT /\ admission_RawReader(file) /\ LensRight(file)
  THEN {file} ELSE {}
\* ferrum-cli/src/fsig.rs
cli_decode_fsig(file) ==
  IF file.form = "FSIG" /\ file.format = SIGNED_FORMAT /\ cli_Reader(file) /\ LensRight(file)
  THEN {file} ELSE {}
\* ferrum-controller/src/bundle.rs
decode_fsig_envelope(file) ==
  IF file.form = "FSIG" /\ file.format = SIGNED_FORMAT /\ take_len_prefixed(file) /\ LensRight(file)
  THEN {file} ELSE {}
\* SignedBundle::decode: the payload must be an FRMB as well.
decode(file) ==
  {[raw |-> e.raw, signature |-> e.signature, public_key |-> e.public_key,
    digest |-> bundle_digest(e.raw)] :
     e \in {x \in decode_fsig_envelope(file) : parse_framb_abis(x.raw) # {}}}

\* verify.rs: what an operator checks before mounting.
cli_parse_trust_root(root) == root.len = ED25519_PUBLIC_KEY_LEN /\ ~is_all_zero(root)
verify_file(file, root) ==
  /\ cli_parse_trust_root(root)
  /\ \E e \in cli_decode_fsig(file) :
       e.public_key = root /\ verify_bundle_signature(e.raw, e.signature, root)

\* apply.rs: the controller leaves a Secret alone that answers TRUE.  A Secret without
\* the digest key passes, and the embedded key is not compared with the root.
live_secret_matches(secret, root, expected) ==
  /\ expected # NoDigest
  /\ \A stored \in secret.digest : stored.form = "text" /\ stored.raw = expected
  /\ \E f \in secret.bundle :
       \E b \in decode(f) : verify_signed_bundle(b, root) /\ b.digest = expected

-----------------------------------------------------------------------------
(* The mount.  `path` is the directory, the bundle.fsig in it, or a file   *)
(* elsewhere; `data` tells whether kubelet's ..data link is there.  The    *)
(* link is read once, so both files are of one snapshot.  Agent and        *)
(* webhook each have a reader of their own.                                *)

BUNDLE_FSIG_KEY == "bundle.fsig"

is_secret_fsig_file(m) == m.path = BUNDLE_FSIG_KEY /\ (m.digest # {} \/ m.data)
snapshot_dir(m) == [bundle |-> m.bundle, digest |-> m.digest]

\* Present and not empty.
read_required(file) == {f \in file : f.form # "empty"}

\* The text of the digest file, trimmed: {} when it is no text or no digest.
parse_dir_digest(file) == IF file.form = "text" /\ file.raw # NoDigest THEN {file.raw} ELSE {}

read_dir_snapshot(m) ==
  LET snap == snapshot_dir(m)
  IN  {[bytes |-> b, expected |-> {d}] :
         b \in read_required(snap.bundle),
         d \in UNION {parse_dir_digest(f) : f \in read_required(snap.digest)}}

read_source_path(m) ==
  IF m.path = "dir" \/ is_secret_fsig_file(m) THEN read_dir_snapshot(m)
  ELSE {[bytes |-> b, expected |-> {}] : b \in m.bundle}

admission_is_secret_fsig_file(m) == m.path = BUNDLE_FSIG_KEY /\ (m.digest # {} \/ m.data)
admission_snapshot_dir(m) == [bundle |-> m.bundle, digest |-> m.digest]
admission_read_required(file) == {f \in file : f.form # "empty"}
admission_parse_dir_digest(file) ==
  IF file.form = "text" /\ file.raw # NoDigest THEN {file.raw} ELSE {}
admission_read_dir_snapshot(m) ==
  LET snap == admission_snapshot_dir(m)
  IN  {[bytes |-> b, expected |-> {d}] :
         b \in admission_read_required(snap.bundle),
         d \in UNION {admission_parse_dir_digest(f) : f \in admission_read_required(snap.digest)}}
admission_read_source_path(m) ==
  IF m.path = "dir" \/ admission_is_secret_fsig_file(m) THEN admission_read_dir_snapshot(m)
  ELSE {[bytes |-> b, expected |-> {}] : b \in m.bundle}

-----------------------------------------------------------------------------
(* ferrum-agent/src/source.rs.                                             *)

pin_bytes(root) == root.len = ED25519_PUBLIC_KEY_LEN /\ ~is_all_zero(root)
parse_trust_root(root) == IF pin_bytes(root) THEN {root} ELSE {}

extract_fsig(file) == IF file.form \in {"FSIG", "FRMB", "FEBP"} THEN {file} ELSE {}

\* Faulty variant: the embedded key is taken for the pin.
LoadSourceByEmbedded(file, root, expected) ==
  {e.raw : e \in {x \in UNION {decode_fsig(f) : f \in extract_fsig(file)} :
     /\ pin_bytes(root)
     /\ verify_bundle_signature(x.raw, x.signature, x.public_key)
     /\ \A d \in expected : verify_bundle_digest(x.raw, d)
     /\ extract_febp(x.raw) # {}}}

load_source(file, root, expected) ==
  {e.raw : e \in {x \in UNION {decode_fsig(f) : f \in extract_fsig(file)} :
     /\ pin_bytes(root)
     /\ x.public_key = root
     /\ verify_bundle_signature(x.raw, x.signature, root)
     /\ \A d \in expected : verify_bundle_digest(x.raw, d)
     /\ extract_febp(x.raw) # {}}}

load_path(m, root) == UNION {load_source(s.bytes, root, s.expected) : s \in read_source_path(m)}

\* The waiver list beside the bundle, in the same envelope.
load_exceptions_source(file, root) ==
  {e.raw : e \in {x \in decode_fsig(file) :
     pin_bytes(root) /\ x.public_key = root
       /\ verify_bundle_signature(x.raw, x.signature, root)}}

-----------------------------------------------------------------------------
(* ferrum-admission/src/bundle.rs.                                         *)

admission_parse_trust_root(root) == IF root.len = ED25519_PUBLIC_KEY_LEN THEN {root} ELSE {}

\* A Secret as JSON carries both keys in base64; its digest is optional.
extract_secret_json(file) ==
  {[fsig |-> f, digest |-> file.digest] :
     f \in {g \in file.bundle : g.form # "empty" /\ \A d \in file.digest : d.form = "text"}}

admission_extract_fsig(file) ==
  CASE file.form \in {"FSIG", "FRMB", "FADM"} -> {[fsig |-> file, digest |-> {}]}
    [] file.form = "json" -> extract_secret_json(file)
    [] OTHER -> {}

load_fsig(file, root) ==
  UNION {parse_verified(e.raw) : e \in {x \in admission_decode_fsig(file) :
     x.public_key = root /\ verify_bundle_signature(x.raw, x.signature, root)}}

load_bundle(file, root) ==
  IF root.len # ED25519_PUBLIC_KEY_LEN \/ file.form # "FSIG" THEN {} ELSE load_fsig(file, root)

\* Faulty variant: the mounted digest is not compared.
LoadIgnoresDigest(file, root, expected) ==
  UNION {load_bundle(x.fsig, root) : x \in admission_extract_fsig(file)}

\* The digest comes last: what load_bundle took is decoded again for its payload.
load_source_with_digest(file, root, expected) ==
  UNION {{program \in load_bundle(x.fsig, root) :
            \A e \in admission_decode_fsig(x.fsig) :
              /\ \A d \in x.digest : verify_bundle_digest(e.raw, d.raw)
              /\ \A d \in expected : verify_bundle_digest(e.raw, d)} :
           x \in admission_extract_fsig(file)}

admission_load_path(m, root) ==
  UNION {load_source_with_digest(s.bytes, root, s.expected) : s \in admission_read_source_path(m)}

verify_exceptions_fsig(file, root) ==
  {e.raw : e \in {x \in admission_decode_fsig(file) :
     /\ root.len = ED25519_PUBLIC_KEY_LEN /\ x.public_key = root
     /\ verify_bundle_signature(x.raw, x.signature, root)}}

=============================================================================
