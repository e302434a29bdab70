------------------------------- MODULE X3dh -------------------------------
(***************************************************************************)
(* The key agreement of crates/core-crypto/src/x3dh.rs and the structures  *)
(* of ARCIUM_X3DH_FORMAT_V1 in crates/mobile-ffi/src/lib.rs that carry it. *)
(*                                                                         *)
(* Keys are symbolic: a key is <<kind, owner, number>>, the secret and the *)
(* public half share the name, and a Diffie-Hellman result is the set of   *)
(* the two names, the same from either side.  A hash or a derivation is    *)
(* the tuple of its inputs.  A wire structure is the sequence of its       *)
(* fields, and every field is checked where the code checks it; Zero is a  *)
(* region of zero bytes.                                                   *)
(***************************************************************************)
EXTENDS Naturals, Sequences

CONSTANT None       \* Rust's None, and a parse or a check that failed

Zero == << >>

ProtocolVersion == 1
CipherSuite == 1
FlagOtp == 1

SpkId(spk) == <<"spk_id", spk>>

\* Mutant of SignedPrekeyObject: the signature leaves the identity key out.
ObjectWithoutIdentity(id, sign, spk) ==
    <<"arcium/x3dh-spk/v1", ProtocolVersion, CipherSuite, sign, spk>>

SignedPrekeyObject(id, sign, spk) ==
    <<"arcium/x3dh-spk/v1", ProtocolVersion, CipherSuite, id, sign, spk>>

Sign(sign, object) == <<"sig", sign, object>>

\* The part of a bundle or a handshake that is there or not: a flag and fields
\* that must be zero without it.
CheckFlags(flags) == flags \in {0, FlagOtp}
CheckHeader(bytes) ==
    /\ bytes[1] = ProtocolVersion /\ bytes[2] = CipherSuite
    /\ CheckFlags(bytes[3])
    /\ bytes[4] = 0

\* PERSISTED_PREKEY_RECORD_V2, the record under prekeys/v2.
RecordVersion == 1

PackPrekeys(record) ==
    <<RecordVersion, record.spk, record.sig>>
    \o IF record.opk = None THEN <<0, Zero, Zero>>
       ELSE <<FlagOtp, record.opk.id, record.opk.pk>>

UnpackPrekeys(bytes) ==
    IF /\ Len(bytes) = 6
       /\ bytes[1] = RecordVersion
       /\ CheckFlags(bytes[4])
       /\ bytes[4] = 0 => bytes[5] = Zero /\ bytes[6] = Zero
    THEN [spk |-> bytes[2], sig |-> bytes[3],
          opk |-> IF bytes[4] = 0 THEN None
                  ELSE [id |-> bytes[5], pk |-> bytes[6]]]
    ELSE None

\* PREKEY_BUNDLE_V1.
PackBundle(id, sign, spk, sig, opk) ==
    <<ProtocolVersion, CipherSuite, IF opk = None THEN 0 ELSE FlagOtp, 0,
      id, sign, spk, sig>>
    \o IF opk = None THEN <<Zero, Zero>> ELSE <<opk.id, opk.pk>>

BundleLen == 10

UnpackBundle(bytes) ==
    IF /\ Len(bytes) = BundleLen
       /\ CheckHeader(bytes)
       /\ bytes[6] # Zero                        \* a valid Ed25519 key
       /\ bytes[3] = 0 => bytes[9] = Zero /\ bytes[10] = Zero
    THEN [id |-> bytes[5], sign |-> bytes[6], spk |-> bytes[7],
          sig |-> bytes[8],
          opk |-> IF bytes[3] = 0 THEN None
                  ELSE [id |-> bytes[9], pk |-> bytes[10]]]
    ELSE None

VerifySignedPrekey(bundle) ==
    bundle.sig = Sign(bundle.sign,
                      SignedPrekeyObject(bundle.id, bundle.sign, bundle.spk))

\* INITIATOR_HANDSHAKE_V1.
PackHandshake(id, eph, spkId, opkId) ==
    <<ProtocolVersion, CipherSuite, IF opkId = None THEN 0 ELSE FlagOtp, 0,
      id, eph, spkId, IF opkId = None THEN Zero ELSE opkId>>

HandshakeLen == 8

UnpackHandshake(bytes) ==
    IF /\ Len(bytes) = HandshakeLen
       /\ CheckHeader(bytes)
       /\ bytes[3] = 0 => bytes[8] = Zero
    THEN [id |-> bytes[5], eph |-> bytes[6], spkId |-> bytes[7],
          opkId |-> IF bytes[3] = 0 THEN None ELSE bytes[8]]
    ELSE None

DH(x, y) == {x, y}

\* The HKDF input is the concatenation of the results, so with and without
\* the fourth (<< >> or <<dh4>>) it differs in length.
DeriveRoot(dh1, dh2, dh3, dh4) == <<dh1, dh2, dh3>> \o dh4

X3dhInitiate(id, eph, bundle) ==
    [root |-> DeriveRoot(DH(id, bundle.spk), DH(eph, bundle.id),
                         DH(eph, bundle.spk),
                         IF bundle.opk = None THEN << >>
                         ELSE <<DH(eph, bundle.opk.pk)>>),
     ad   |-> <<id, bundle.id>>]

X3dhRespond(id, spk, opk, theirId, theirEph) ==
    [root |-> DeriveRoot(DH(spk, theirId), DH(id, theirEph),
                         DH(spk, theirEph),
                         IF opk = None THEN << >> ELSE <<DH(opk.pk, theirEph)>>),
     ad   |-> <<theirId, id>>]

\* Mutant of CheckAnswerable: a handshake that names no one-time prekey is
\* answered though one is held.
AnswerableWithout(record, handshake) ==
    /\ SpkId(record.spk) = handshake.spkId
    /\ \/ handshake.opkId = None
       \/ record.opk # None /\ handshake.opkId = record.opk.id

\* Which prekeys a device answers from: its own record against what the
\* handshake names (the table on establish_session_responder).
CheckAnswerable(record, handshake) ==
    /\ SpkId(record.spk) = handshake.spkId
    /\ IF record.opk = None THEN handshake.opkId = None
       ELSE handshake.opkId = record.opk.id

=============================================================================
