---------------------------- MODULE QemuWrapper ----------------------------
(***************************************************************************)
(* The script that stands in for qemu-kvm inside the container             *)
(* (pkg/podman/scripts/qemu-wrapper.sh): it rewrites the command line with *)
(* which libvirt launches a guest and hands every other one on.            *)
(*                                                                         *)
(* An argument is its text (an option, or what sort of JSON value it is),  *)
(* the number of the disk it is about, the block node it defines, the node *)
(* it refers to, and of a file name its extension and whether it has a     *)
(* space.  Node i is the file of disk i; 0 is no node.                     *)
(***************************************************************************)
EXTENDS Integers, Sequences
SeqExt == INSTANCE SequencesExt

Option(text) ==
    [text |-> text, disk |-> 0, node |-> 0, ref |-> 0, ext |-> "", spaced |-> FALSE]
BlockFile(i, path, spaced) ==
    [Option("file") EXCEPT !.disk = i, !.node = i, !.ext = path.ext, !.spaced = spaced]
Device(i) == [Option("drive") EXCEPT !.disk = i, !.ref = i]

\* The name of the format node over a file node.
Fmt(node) == -node
BlockQcow2(file) == [file EXCEPT !.text = "qcow2", !.node = Fmt(@), !.ref = file.node]

\* Every argument becomes the sequence Op(i).
MapEach(args, Op(_)) == SeqExt!FlattenSeq([i \in DOMAIN args |-> Op(i)])

After(args, i, option) == i > 1 /\ args[i - 1].text = option

-----------------------------------------------------------------------------

\* -sandbox goes, and the argument after it.
StripSandbox(args) ==
    MapEach(args, LAMBDA i :
        IF args[i].text = "-sandbox" \/ After(args, i, "-sandbox") THEN <<>> ELSE <<args[i]>>)

\* The result of a command substitution without quotes is split at spaces.
SplitWords(args) ==
    MapEach(args, LAMBDA i : IF args[i].spaced THEN <<Option("piece"), Option("piece")>>
                             ELSE <<args[i]>>)

\* Mutant: every file is taken for a qcow2 image.
AllNodes(args) ==
    {args[i].node : i \in {j \in DOMAIN args :
        After(args, j, "-blockdev") /\ args[j].text = "file"}}

\* The nodes of files whose names end in .qcow2, in lower case.
Qcow2Nodes(args) ==
    {args[i].node : i \in {j \in DOMAIN args :
        After(args, j, "-blockdev") /\ args[j].text = "file" /\ args[j].ext = "qcow2"}}

\* A format node comes right after each of these nodes, and what else refers
\* to such a node by "drive" refers to the format node.
InjectFormats(args, nodes) ==
    MapEach(args, LAMBDA i :
        IF After(args, i, "-blockdev")
        THEN IF args[i].node \in nodes
             THEN <<args[i], Option("-blockdev"), BlockQcow2(args[i])>> ELSE <<args[i]>>
        ELSE IF args[i].text = "drive" /\ args[i].ref \in nodes
             THEN <<[args[i] EXCEPT !.ref = Fmt(@)]>> ELSE <<args[i]>>)

\* The guest's network, which libvirt was not told about.  It forwards one port,
\* hostfwd=tcp:0.0.0.0:22-:22, whatever ports the configuration forwards to the
\* container; the forwarding is left out here.
UserNet == <<Option("-netdev"), Option("user"), Option("-device"), Option("netdev=net0")>>

\* A command line that names a guest launches one; any other is a probe.
Rewrite(args) ==
    IF \A i \in DOMAIN args : args[i].text # "guest" THEN args
    ELSE LET stripped == SplitWords(StripSandbox(args))
         IN  SplitWords(InjectFormats(stripped, Qcow2Nodes(stripped))) \o UserNet

-----------------------------------------------------------------------------
(* External: the command line that libvirt makes of the volumes of a VMI.   *)

LaunchArgs(volumes, spaced) ==
    <<Option("-name"), Option("guest"), Option("-sandbox"), Option("on")>>
    \o MapEach(volumes, LAMBDA i :
          <<Option("-blockdev"), BlockFile(i, volumes[i], spaced[i]),
            Option("-device"), Device(i)>>)
=============================================================================
