----------------------------- MODULE MCStorage -----------------------------
(* FATs of eight entries, four in a sector or all; three letters, four      *)
(* buffers; cluster numbers fit the low half below seven.                   *)
EXTENDS Storage

E == 31
LogTxt == <<"log", ".", "txt">>
Free == [kind |-> "free"]
Lfn(text) == [kind |-> "lfn", text |-> text]
Dir(base, c) == [kind |-> "rde", dir |-> TRUE, system |-> FALSE, readOnly |-> FALSE, base |-> <<base>>,
                 ext |-> <<>>, short |-> TRUE, fullExt |-> FALSE, cluster |-> c, size |-> 0]
File(base, ext, c, n) == [Dir(base, c) EXCEPT !.dir = FALSE, !.ext = ext, !.size = n]

\* The root is cluster 2, a directory "boot" cluster 3.
Root == <<File("data", <<>>, 0, 0), Free, Dir("boot", 3), Lfn(<<"tga">>), Lfn(<<"icon", ".">>),
          File("icon", <<"tga">>, 4, 2), File("log", <<"txt">>, 6, 1)>>
Boot == <<Dir(".", 3), Dir("..", 0), File("log", <<"txt">>, 5, 1)>>
Plain == [reserved |-> 2, perFAT |-> 1, numFATs |-> 2, perCluster |-> 2, perSector |-> 8,
          fat |-> [c \in 0 .. 7 |-> CASE c = 0 -> 30 [] c = 4 -> 5 [] c = 7 -> 0 [] OTHER -> E],
          dirs |-> (2 :> Root @@ 3 :> Boot)]

\* Images by what is unusual: other chains, a second cluster of the root, a part of the FAT
\* out of the sector that is read, data that begins within a cluster, a directory with a
\* large number, parts of a long name without an entry, names that are not spelled as usual,
\* nothing in the root.
With(slot) == [Plain EXCEPT !.dirs[2] = <<slot>> \o @]
Chains == {[Plain EXCEPT !.fat[4] = a, !.fat[5] = b, !.fat[6] = c] : a \in {5, 6, 30, E}, b \in {6, E}, c \in {4, 7, E}}
Images == Chains \cup
    {[Plain EXCEPT !.fat[2] = 7, !.dirs = @ @@ (7 :> <<File("far", <<"txt">>, 6, 1)>>)],
     [Plain EXCEPT !.perFAT = 2, !.perSector = 4],
     [Plain EXCEPT !.perFAT = 2, !.perSector = 3],
     [Plain EXCEPT !.reserved = 3],
     [Plain EXCEPT !.dirs = (2 :> <<Dir("boot", 7)>> @@ 7 :> Boot)],
     [Plain EXCEPT !.dirs[2] = <<>>],
     [Plain EXCEPT !.dirs[2] = <<Lfn(LogTxt), File("longname", <<>>, 4, 1)>>],
     [Plain EXCEPT !.dirs[2] = <<Lfn(LogTxt), Free, File("data", <<>>, 4, 1)>>],
     [Plain EXCEPT !.dirs[2] = <<Lfn(<<"old">>), Free, File("log", <<"txt">>, 6, 1)>>],
     With([File("ro", <<"txt">>, 6, 1) EXCEPT !.readOnly = TRUE]),
     With([File("log", <<"txt">>, 5, 1) EXCEPT !.system = TRUE]),
     With([File("log", <<"txt">>, 5, 1) EXCEPT !.short = FALSE]),
     With([File("log", <<"txt">>, 5, 1) EXCEPT !.short = FALSE, !.fullExt = TRUE])}

Basic(img) == [type |-> "basic", fat32 |-> TRUE, noAuto |-> FALSE, hidden |-> FALSE, image |-> img]
Esp == [type |-> "efi"]
Ntfs == [type |-> "basic", fat32 |-> FALSE]
Gpt(entries) == [gpt |-> TRUE, entries |-> entries]
Mbr == [gpt |-> FALSE]
Sata(n, d) == [number |-> n, kind |-> "sata", stubborn |-> FALSE, disk |-> d]
NoDisk(n, k) == [number |-> n, kind |-> k, stubborn |-> FALSE]
Ahci(ports) == [class |-> "ahci", ports |-> ports]
Other == [class |-> "other"]
Nothing == [class |-> "absent"]
Host == <<Other>>

Machine(ports) ==
    [revision |-> 1, tables |-> <<"FACP", "MCFG">>, ranges |-> <<[start |-> 0, end |-> 1]>>,
     config |-> (0 :> <<Host, <<Other, Ahci(ports)>>>>)]

One == Gpt(<<Esp, Basic(Plain)>>)
Two == Gpt(<<Basic(Plain), Basic(Plain)>>)
Three == Gpt(<<Ntfs, Basic(Plain), [Basic(Plain) EXCEPT !.hidden = TRUE]>>)

MCMachines ==
    {Machine(<<Sata(0, One), NoDisk(1, "atapi"), Sata(2, Gpt(<<Basic(img)>>))>>) : img \in Images}
    \cup {Machine(p) : p \in {<<>>, <<Sata(0, Mbr), Sata(1, Two), Sata(2, Two)>>,
            <<Sata(0, Mbr), Sata(1, One), Sata(2, One), Sata(3, One)>>,
            <<Sata(0, Three), Sata(1, Gpt(<<[Basic(Plain) EXCEPT !.noAuto = TRUE]>>)), Sata(31, One)>>,
            <<Sata(0, One), [Sata(1, One) EXCEPT !.stubborn = TRUE]>>, <<NoDisk(30, "none")>>}}
    \cup {[Machine(<<Sata(0, One)>>) EXCEPT !.tables = <<"FACP">>, !.revision = r] : r \in {1, 2}}
    \cup {[Machine(<<>>) EXCEPT !.ranges = <<[start |-> 0, end |-> 3], [start |-> 4, end |-> 5]>>,
             !.config = 0 :> <<Host>> @@ 1 :> <<<<Nothing>>>> @@ 4 :> <<<<Ahci(<<Sata(0, One)>>)>>>> @@
                        2 :> <<Host, <<Nothing>>, <<Ahci(<<Sata(0, One), Sata(1, One)>>)>>>>]}

Path(l, names) == [letter |-> l, names |-> names]
MCIcon == Path(1, <<<<"icon", ".", "tga">>>>)
MCPaths ==
    {Path(1, <<LogTxt>>), Path(1, <<<<"boot">>, LogTxt>>), Path(0, <<<<"boot">>, <<"..">>, <<"boot">>, LogTxt>>),
     Path(1, <<<<"missing">>, LogTxt>>), Path(1, <<<<"far", ".", "txt">>>>), Path(1, <<<<"boot">>>>), Path(1, <<<<"data", ".">>>>),
     Path(2, <<LogTxt>>), Path(1, <<<<"log", "txt", ".">>>>),
     Path(-1, <<LogTxt>>)}
=============================================================================
