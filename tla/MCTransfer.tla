----------------------------- MODULE MCTransfer -----------------------------
(* Transfer with trees at and above the limits, with read-only directories, *)
(* links, names left out and ignored.                                       *)
EXTENDS Transfer

AllOperations == {"directory", "file", "import", "fetch", "start", "resume"}
AllPaths == {"", "a", "b", "c", "d", "g", "r", "request.json", "resume-checkpoint.pt"}
AllFaults == {"touch", "vanish", "cut", "kill"}

File(name, size, in) ==
    [name |-> name, kind |-> "file", size |-> size, in |-> in, skip |-> "no", ro |-> FALSE]
Directory(name, ro) ==
    [name |-> name, kind |-> "dir", size |-> 0, in |-> "", skip |-> "no", ro |-> ro]
Left(e, why) == [e EXCEPT !.skip = why]
Link(name) == [File(name, 0, "") EXCEPT !.kind = "link"]

SomeTrees ==
    { <<>>,
      <<File("a", 2, "")>>,
      <<File("a", 3, "")>>,
      <<Link("a")>>,
      <<Directory("d", TRUE), File("a", 0, ""), File("b", 2, "d")>>,
      <<Directory("d", FALSE), File("b", 1, "d"), Link("c")>>,
      <<Left(Directory("g", FALSE), "excluded"), Left(File("c", 2, "g"), "excluded"),
        File("a", 1, ""), File("b", 1, "")>>,
      <<Left(Link("c"), "excluded"), Left(File("r", 1, ""), "ignored"), File("a", 1, "")>>,
      <<File("a", 1, ""), File("b", 1, ""), File("c", 0, "")>> }

OfWorkspaceTransfer == [files |-> 3, bytes |-> 3]
OfTheCaller == [files |-> 2, bytes |-> 2]
OfRemoteProtocol == [files |-> 4, bytes |-> 4]
=============================================================================
