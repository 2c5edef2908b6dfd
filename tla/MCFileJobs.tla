----------------------------- MODULE MCFileJobs -----------------------------
(* A directory of three files, one of them in a directory below it.        *)
EXTENDS FileJobs

(* A content is a text that shrinks or noise that does not, of a path,     *)
(* compressed depth times.                                                 *)
Content(kind, of, depth) == [kind |-> kind, of |-> of, depth |-> depth]

MCNone == Content("none", "", 0)
MCNoPath == "none"
MCTorn == Content("torn", "", 0)
MCGzip(c) == [c EXCEPT !.depth = Smaller(@ + 1, 3)]
MCShrinks(c) == c.kind # "noise"

MCContents ==
    {MCTorn} \cup {Content(k, p, n) :
                     k \in {"text", "noise", "old", "torn"}, p \in {"", "a", "b", "c"}, n \in 0..3}

MCPaths == {"a", "b", "c", "a.gz", "b.gz", "c.gz", "a.gz.gz", "b.gz.gz", "c.gz.gz"}
MCDirs == {"dir", "sub"}
MCListing(d) ==
    IF d = "dir" THEN <<"a", "a.gz", "b", "b.gz", "c", "c.gz">> ELSE <<"b", "b.gz">>
MCRoot(p) == IF p \in {"b", "b.gz"} THEN "sub" ELSE "dir"
MCRank(p) == CASE p = "a" -> 1 [] p = "a.gz" -> 2 [] p = "b" -> 3 [] p = "b.gz" -> 4
               [] p = "c" -> 5 [] OTHER -> 6
MCEndsInGz(p) == p \notin {"a", "b", "c"}
MCOutput(p) == p \o ".gz"

(* A relative path that the filter takes below one root only. *)
MCMatches(root, p) == root = "dir" \/ p # "b"

Files(a, b, c, old) ==
    [p \in MCPaths |-> CASE p = "a" -> a [] p = "b" -> b [] p = "c" -> c
                         [] p = "a.gz" -> old [] OTHER -> MCNone]

Text(p) == Content("text", p, 0)
Noise(p) == Content("noise", p, 0)
Old == Content("old", "", 1)

MCFileSystems ==
    {Files(Text("a"), Text("b"), MCNone, Old), Files(Text("a"), Noise("b"), Text("c"), MCNone),
     Files(Noise("a"), MCNone, MCNone, Old)}

Command(inputs, jobsSet, jobs, workers, gzips, verbose) ==
    [inputs |-> inputs, help |-> FALSE, options |-> TRUE, jobsSet |-> jobsSet, jobs |-> jobs,
     workersPerFile |-> workers, allowGzipInputs |-> gzips, verbose |-> verbose]

PlainCommands ==
    {Command(inputs, FALSE, 0, n, FALSE, FALSE) :
        inputs \in {<<"dir">>, <<"dir", "b">>, <<"sub", "a", "dir">>}, n \in {1, 2, 3}}
        \cup {Command(<<"a", "a">>, TRUE, 2, 4, FALSE, TRUE),
              Command(<<"b", "dir">>, TRUE, 2, 5, FALSE, FALSE),
              Command(<<"dir">>, TRUE, 0, 1, FALSE, FALSE),
              Command(<<>>, TRUE, 1, 1, FALSE, FALSE),
              [Command(<<"a">>, TRUE, 1, 1, FALSE, FALSE) EXCEPT !.help = TRUE],
              [Command(<<"a">>, TRUE, 1, 1, FALSE, FALSE) EXCEPT !.options = FALSE]}

(* Inputs that are outputs of other candidates too. *)
GzipCommands ==
    {Command(inputs, TRUE, 2, 1, TRUE, FALSE) : inputs \in {<<"dir">>, <<"a.gz", "a">>}}

(* What a kill or a removed file is tried on. *)
CrashCommands ==
    {Command(<<"dir", "b">>, FALSE, 0, 2, FALSE, FALSE), Command(<<"sub", "a">>, TRUE, 2, 1, FALSE, TRUE),
     Command(<<"a", "b", "c">>, TRUE, 2, 1, FALSE, FALSE)}

(* A worker that may wait for another, with a kill. *)
SmallCommands ==
    {Command(<<"dir", "a">>, TRUE, n, 1, FALSE, TRUE) : n \in {1, 2}}

AllCommands == PlainCommands \cup GzipCommands \cup CrashCommands \cup SmallCommands

MCMaxCrashes(c) == IF c \in CrashCommands \cup SmallCommands THEN 1 ELSE 0
MCMaxLost(c) == IF c \in CrashCommands THEN 1 ELSE 0

=============================================================================
