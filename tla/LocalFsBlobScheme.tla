------------------------- MODULE LocalFsBlobScheme -------------------------
(***************************************************************************)
(* The legacy local filesystem blob access type of the contexts tree,      *)
(* src/pkg/contexts/ocm/accessmethods/localfsblob/method.go, its access    *)
(* method src/pkg/contexts/ocm/repositories/comparch/accessmethod_localfs  *)
(* .go, and the encoding of typed objects, MarshalObjectVersionedType of   *)
(* src/pkg/runtime/versionedtype.go.                                       *)
(*                                                                         *)
(* Rules of the code, formalised below:                                    *)
(*  - init() registers the kind's version scheme under both names,         *)
(*    localFilesystemBlob and localFilesystemBlob/v1, each with the        *)
(*    converter LocalFilesystemBlobV1; registering a name of another kind  *)
(*    fails, and Must panics.                                              *)
(*  - New(path, media) makes the internal spec (a localblob.AccessSpec)    *)
(*    with type localFilesystemBlob, whose encoder is that scheme.         *)
(*  - Encoding looks the object's type up in the scheme and serializes     *)
(*    what ConvertFrom makes of it (Filename = LocalReference); decoding   *)
(*    looks the serialized type up and applies ConvertTo.                  *)
(*  - The access method reads GetBlobData(LocalReference).                 *)
(*                                                                         *)
(* The spec's type is the ObjectVersionedType of VersionedType: its        *)
(* setters change it between encodings.  The scheme itself is outside      *)
(* src/ and modelled after spec section 4.3: it holds converted types by   *)
(* their full type name and decodes only those.                            *)
(***************************************************************************)
EXTENDS VersionedType

CONSTANTS
    SchemeKind,  \* the kind localFilesystemBlob, one of KindArgs
    V1,          \* the literal version "v1" of TypeV1
    Refs,        \* LocalReference values (blob names in the container)
    WireTypes    \* the type fields of hand-written serialized specs

ASSUME /\ SchemeKind \in KindArgs
       /\ V1 \in VersionArgs

\* const Type, TypeV1 = Type + VersionSeparator + "v1".
Type == SchemeKind
TypeV1 == SchemeKind \o <<Sep>> \o V1

\* init(): versions.Register(NewConvertedAccessSpecType(Type, ...)) and
\* (TypeV1, ...); the scheme accepts a type of its own kind only (spec 4.3),
\* so the names held are those whose kind is localFilesystemBlob.
Registered == {n \in {Type, TypeV1} : GetKind(n) = SchemeKind}

\* The strict scheme: a type name is known iff it is registered.
Lookup(n) == n \in Registered

\* localfsblobConverterV1.ConvertFrom: the serialized AccessSpec keeps the
\* type and carries LocalReference as Filename.
ConvertFrom(o) == [type |-> o.type, fileName |-> o.ref]

\* A plausible bug: the decoded spec gets the name it was registered under
\* for the converter, TypeV1, instead of the serialized type.
MutConvertTo(d) == [type |-> TypeV1, ref |-> d.fileName]

\* localfsblobConverterV1.ConvertTo: back to the internal localblob spec.
ConvertTo(d) == [type |-> d.type, ref |-> d.fileName]

None == [result |-> "none"]
Err == [result |-> "err"]

VARIABLES
    ref,         \* the spec's LocalReference
    wire,        \* the bytes of the last encoding: a serialized spec or Err
    encodedOf,   \* history: the internal spec the last successful encoding was of
    decoded,     \* the spec the last Decode returned, or Err
    decodedFrom, \* the serialized spec the last Decode was given
    got          \* the blob name the access method last read

schemeVars == <<ref, wire, encodedOf, decoded, decodedFrom, got>>
allVars == <<typ, lastOp, ref, wire, encodedOf, decoded, decodedFrom, got>>

\* Serialized specs a caller may hand to Decode besides the encoded one.
HandWritten == [type : WireTypes, fileName : Refs]

\* New(path, media): the internal spec with type localFilesystemBlob.
SchemeInit ==
    /\ typ = Type /\ lastOp = <<"none">>
    /\ ref \in Refs
    /\ wire = None /\ encodedOf = None
    /\ decoded = None /\ decodedFrom = None /\ got = None

\* MarshalObjectVersionedType(spec): the object has an encoder, the scheme
\* New gave it; the scheme encodes a registered type through ConvertFrom
\* and fails with ErrUnknown for any other type.
Encode ==
    LET o == [type |-> typ, ref |-> ref] IN
    /\ IF Lookup(typ)
         THEN wire' = ConvertFrom(o) /\ encodedOf' = o
         ELSE wire' = Err /\ UNCHANGED encodedOf
    /\ UNCHANGED <<typ, lastOp, ref, decoded, decodedFrom, got>>

\* Decode(data): versions.Decode looks the serialized type up and applies
\* ConvertTo; the type assertion to *localblob.AccessSpec then holds.
Decode ==
    \E d \in ({wire} \ {None, Err}) \cup HandWritten :
        /\ decoded' = IF Lookup(d.type) THEN ConvertTo(d) ELSE Err
        /\ decodedFrom' = d
        /\ UNCHANGED <<typ, lastOp, ref, wire, encodedOf, got>>

\* localFilesystemBlobAccessMethod.Get / Reader of the decoded spec:
\* base.GetBlobData(spec.LocalReference).
Get ==
    /\ decoded \notin {None, Err}
    /\ got' = decoded.ref
    /\ UNCHANGED <<typ, lastOp, ref, wire, encodedOf, decoded, decodedFrom>>

\* The spec's type changes through its setters between the calls.
SchemeNext ==
    \/ Next /\ UNCHANGED schemeVars
    \/ Encode \/ Decode \/ Get

SchemeSpec == SchemeInit /\ [][SchemeNext]_allVars

-----------------------------------------------------------------------------
(* Properties.                                                              *)

\* spec 8, ConvertTo(ConvertFrom(i)) = i: decoding what the scheme encoded
\* succeeds and gives back the internal spec it was encoded from, whatever
\* the setters did to the type before the encoding (and after it).
SchemeRoundTrip ==
    (decodedFrom = wire /\ encodedOf # None) => decoded = encodedOf

=============================================================================
