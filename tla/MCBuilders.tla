----------------------------- MODULE MCBuilders -----------------------------
(* The scripts that make the repository's test data, of which a behaviour  *)
(* runs one kind: the fixture generator, with one file more in its output  *)
(* directory than it makes, or the two builders of snapshot vectors.       *)
EXTENDS Fixtures

CONSTANTS torn, DEATHS

strays == <<"g8_other">>

VARIABLES script, todo, pc, hdr, buf, disk, deaths
snapshot == <<todo, pc, hdr, buf, disk, deaths>>
S == INSTANCE Snapshot WITH TORN <- torn
ASSUME TornAssumption ==
    torn # S!OLD /\ \A v \in S!Vectors : torn # S!Manifest(v, 0, S!OLD)

MCInit == Init /\ S!Init /\ script \in {"fixtures", "snapshots"}
MCNext ==
    \/ script = "fixtures" /\ Next /\ UNCHANGED <<script, snapshot>>
    \/ script = "snapshots" /\ S!Next /\ UNCHANGED <<script, vars>>
MCSpec == MCInit /\ [][MCNext]_<<script, vars, snapshot>>

(* Format section 2: whenever no script is running, the checksum of every  *)
(* header saved is the CRC-16-CCITT of the 62 bytes before it.             *)
ChecksumVerifies == S!ChecksumVerifies
(* Format section 3: the reader computes from DataOffset, the stored       *)
(* length and the header's counts where the sections begin, and they do.   *)
SectionsFound == S!SectionsFound
(* Each vector breaks the rule of the format document its manifest names,  *)
(* and besides it only two that the scripts do not mention: all six lack   *)
(* the trailer, and tc33 the leading NUL.                                  *)
NamedDefect == S!NamedDefect
(* However often scripts die, a manifest that is not the committed one has *)
(* the digest and the counts of the whole snapshot beside it.              *)
ManifestNotAhead == S!ManifestNotAhead
=============================================================================
