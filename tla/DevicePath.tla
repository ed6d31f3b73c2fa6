----------------------------- MODULE DevicePath -----------------------------
(***************************************************************************)
(* GetVolumeDirectoryName of pkg/utils/volume_utils.go: where the driver   *)
(* expects a volume to show up on the VM.  A path is abstracted to the     *)
(* prefix the code puts in front and the key that follows it: the start of *)
(* the volume's id, or its WWN.  Two ids may start alike, so the keys of   *)
(* two volumes need not differ.                                            *)
(***************************************************************************)
CONSTANTS
    Volumes,    \* Cinder volume ids
    NoVol,      \* "no volume"
    IdHead,     \* volume -> the first 20 characters of its id
    IdDigits,   \* volume -> the first 25 of its id without the dashes
    WWN,        \* volume -> its WWN, in lower case
    NoKey       \* nothing after the prefix

ASSUME PathAssumption ==
    /\ NoVol \notin Volumes
    /\ \A v \in Volumes : NoKey \notin {IdHead[v], IdDigits[v], WWN[v]}

\* resources.HypType*: libvirt, kvm and novalink-kvm take the KVM branch, phyp
\* and powervm the PowerVM branch, any other type neither.
HypTypes == {"kvm", "powervm", "other"}

\* resources.StorageHostType* and what the registration lookup may lack:
\* "none" is the nil registration of GetStorageHostRegistration.
HostTypes == {"gpfs", "xiv", "svc", "none"}

\* "dir" is the bare /dev/disk/by-id/ that an XIV volume without WWN gets.
PathKinds == {"none", "kvm", "lio", "xiv", "vios", "dir"}

Keys  == (UNION {{IdHead[v], IdDigits[v], WWN[v]} : v \in Volumes}) \cup {NoKey}
Paths == [kind : PathKinds, key : Keys]

Path(kind, key) == [kind |-> kind, key |-> key]

\* The empty string the function returns with a nil error.
NoPath == Path("none", NoKey)

getDirectoryNameKVM(v) == Path("kvm", IdHead[v])

getDirectoryNamePvmLIO(v) == Path("lio", IdDigits[v])

\* hasWWN says whether volume_wwn is in the metadata as they were read.
getDirectoryNamePvmXiv(v, hasWWN) ==
    IF hasWWN THEN Path("xiv", WWN[v]) ELSE Path("dir", NoKey)

getDirectoryNameForPhyp(v, hasWWN) == Path("vios", IF hasWWN THEN WWN[v] ELSE NoKey)

\* The dispatch on the storage host, on PowerVM.
DirectoryNamePvm(host, v, hasWWN) ==
    CASE host = "gpfs" -> getDirectoryNamePvmLIO(v)
      [] host = "xiv" -> getDirectoryNamePvmXiv(v, hasWWN)
      [] host \in {"svc", "none"} -> getDirectoryNameForPhyp(v, hasWWN)

\* The paths that say which volume they are for.
PathsNaming(v) ==
    {getDirectoryNameKVM(v), getDirectoryNamePvmLIO(v), Path("xiv", WWN[v]), Path("vios", WWN[v])}
=============================================================================
