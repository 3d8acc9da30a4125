----------------------------- MODULE StaticFiles -----------------------------
(***************************************************************************)
(* papago_serve_static_handler with papago_res_sendfile (src/papago.c).    *)
(*                                                                         *)
(* The static handler asks the file system five times, by name, and        *)
(* another process may change it in between.  The file system is external: *)
(* a function from canonical paths, sequences of names, to nodes.  realpath *)
(* compares strings; that one name begins with the characters of another   *)
(* is the relation NameBegins.                                             *)
(***************************************************************************)
EXTENDS Integers, SequencesExt, FiniteSetsExt

CONSTANTS
    FileSystems,         \* initial file systems: functions from paths to nodes
    StaticDirs,          \* values of config.static_dir, as paths
    RequestPaths,        \* what the router leaves: sequences of names and ".."
    Changes,             \* pairs of a path and the node that replaces its own
    NameBegins,          \* <<a, b>>: the name b begins with the characters of a
    PATH_MAX,            \* names in the longest path there is room for
    MaxChanges           \* bound: changes of the file system

Dir == [kind |-> "dir"]
File == [kind |-> "file"]
Fifo == [kind |-> "fifo"]
Gone == [kind |-> "gone"]
LinkTo(p) == [kind |-> "link", target |-> p]

Nowhere == <<"nowhere">>
IndexHtml == "index.html"

\* A node, as the file system has them.
IsNode(n) ==
    \/ n \in {Dir, File, Fifo, Gone}
    \/ n.target \in Seq(STRING) /\ n = LinkTo(n.target)

\* The root of a file system is a directory, and stays one.
ASSUME StaticAssumption ==
    /\ \A fs \in FileSystems :
          /\ <<>> \in DOMAIN fs /\ fs[<<>>] = Dir /\ Nowhere \notin DOMAIN fs
          /\ \A p \in DOMAIN fs : IsNode(fs[p])
    /\ \A c \in Changes : c[1] \notin {<<>>, Nowhere} /\ IsNode(c[2])
    /\ StaticDirs \cup RequestPaths \subseteq Seq(STRING)
    /\ MaxChanges \in Nat /\ PATH_MAX \in Nat

VARIABLES
    files, static_dir,           \* the file system; config.static_dir
    where,                       \* the next question of the handler
    request_path, resolved_root, filepath, resolved_path,
    code,                        \* the status of the response
    opened,                      \* the file behind stream_fd, or Nowhere
    changes,                     \* bound: changes made
    fresh                        \* history: since when, of "handler" and
                                 \* "realpath", nothing changed or failed

names == <<request_path, resolved_root, filepath, resolved_path>>
staticVars == <<files, static_dir, where, names, code, opened, changes,
                fresh>>

StaticInit ==
    /\ files = <<>> /\ static_dir = <<>>
    /\ where = "unconfigured"
    /\ request_path = <<>> /\ resolved_root = Nowhere /\ filepath = <<>>
    /\ resolved_path = Nowhere
    /\ code = 0 /\ opened = Nowhere
    /\ changes = 0 /\ fresh = {}

-----------------------------------------------------------------------------
(* The file system, external                                               *)

NodeAt(fs, p) == IF p \in DOMAIN fs THEN fs[p] ELSE Gone

\* One name further, an empty one staying where it is; follow resolves links.
Walk(fs, p, name, follow) ==
    LET next == CASE name = "" -> p
                  [] name = ".." -> IF p = <<>> THEN p ELSE Front(p)
                  [] OTHER -> Append(p, name)
        node == NodeAt(fs, next)
    IN  IF NodeAt(fs, p).kind # "dir" \/ node.kind = "gone" THEN Nowhere
        ELSE IF node.kind = "link" THEN follow[node.target]
        ELSE next

Resolve(fs, p, follow) ==
    LET at[n \in 0 .. Len(p)] ==
            IF n = 0 THEN <<>> ELSE Walk(fs, at[n - 1], p[n], follow)
    IN  at[Len(p)]

Targets(fs) ==
    {fs[p].target : p \in {q \in DOMAIN fs : fs[q].kind = "link"}}

\* realpath, and what stat and open follow.  Links nest three deep at most; deeper
\* ones are taken for a loop, which the system refuses.
RealPath(fs, p) ==
    LET fourth == [t \in Targets(fs) |-> Nowhere]
        third == [t \in Targets(fs) |-> Resolve(fs, t, fourth)]
        second == [t \in Targets(fs) |-> Resolve(fs, t, third)]
    IN  Resolve(fs, p, second)

Kind(fs, p) == NodeAt(fs, RealPath(fs, p)).kind

\* Another process replaces a node while the handler runs.
Change(p, node) ==
    /\ where \in {"root", "stat", "index", "realpath", "open"}
    /\ changes < MaxChanges /\ changes' = changes + 1
    /\ NodeAt(files, p) # node
    /\ files' = [q \in DOMAIN files \cup {p} |->
                    IF q = p THEN node ELSE files[q]]
    /\ fresh' = {}
    /\ UNCHANGED <<static_dir, where, names, code, opened>>

\* A server is configured with a directory, in a file system.
ConfigureStatic(fs, dir) ==
    /\ where = "unconfigured"
    /\ files' = fs /\ static_dir' = dir
    /\ where' = "idle"
    /\ UNCHANGED <<names, code, opened, changes, fresh>>

-----------------------------------------------------------------------------
(* papago_serve_static_handler                                             *)

Answers(s) == code' = s /\ where' = "answered"

\* The path is what a wildcard of the route took, which may be too long to be
\* copied, or the request's own.
Request(p, wildcard) ==
    /\ where = "idle"
    /\ request_path' = p
    /\ fresh' = {"handler"}
    /\ IF wildcard /\ Len(p) > PATH_MAX THEN Answers(414)
       ELSE where' = "root" /\ UNCHANGED code
    /\ UNCHANGED <<files, static_dir, resolved_root, filepath, resolved_path,
                   opened, changes>>

\* No directory is configured.
RequestUnconfigured(p) ==
    /\ where = "unconfigured"
    /\ request_path' = p
    /\ Answers(500)
    /\ UNCHANGED <<files, static_dir, resolved_root, filepath, resolved_path,
                   opened, changes, fresh>>

ResolveRoot ==
    /\ where = "root"
    /\ resolved_root' = RealPath(files, static_dir)
    /\ filepath' = static_dir \o request_path
    /\ IF resolved_root' = Nowhere THEN Answers(500)
       ELSE IF Len(filepath') > PATH_MAX THEN Answers(414)
       ELSE where' = "stat" /\ UNCHANGED code
    /\ UNCHANGED <<files, static_dir, request_path, resolved_path, opened,
                   changes, fresh>>

\* A directory stands for the index.html in it.
Stat ==
    /\ where = "stat"
    /\ CASE Kind(files, filepath) = "gone" -> Answers(404) /\ UNCHANGED filepath
         [] Kind(files, filepath) = "file" ->
                where' = "realpath" /\ UNCHANGED <<code, filepath>>
         [] Kind(files, filepath) = "dir" ->
                /\ filepath' = Append(filepath, IndexHtml)
                /\ IF Len(filepath') > PATH_MAX THEN Answers(414)
                   ELSE where' = "index" /\ UNCHANGED code
         [] OTHER -> Answers(403) /\ UNCHANGED filepath
    /\ UNCHANGED <<files, static_dir, request_path, resolved_root, resolved_path,
                   opened, changes, fresh>>

StatIndex ==
    /\ where = "index"
    /\ IF Kind(files, filepath) # "file" THEN Answers(403)
       ELSE where' = "realpath" /\ UNCHANGED code
    /\ UNCHANGED <<files, static_dir, names, opened, changes, fresh>>

\* strncmp: the path begins with the characters of the root.
BeginsWithRoot(p, root) ==
    /\ Len(p) >= Len(root)
    /\ \A i \in DOMAIN root :
          \/ p[i] = root[i]
          \/ i = Len(root) /\ <<root[i], p[i]>> \in NameBegins

\* Mutant of Inside: the character behind the root is not looked at.
InsideByCharacters(p, root) == BeginsWithRoot(p, root)

\* And the next character ends the last name of the root.  The root "/" ends in
\* a slash itself, so that the character behind it is neither '/' nor '\0'
\* unless the path is "/" too.
Inside(p, root) ==
    /\ BeginsWithRoot(p, root)
    /\ root = <<>> => p = <<>>
    /\ root # <<>> => p[Len(root)] = root[Len(root)]

\* realpath on the file, and the comparison with the root.
ResolvePath ==
    /\ where = "realpath"
    /\ resolved_path' = RealPath(files, filepath)
    /\ fresh' = fresh \cup {"realpath"}
    /\ IF resolved_path' = Nowhere THEN Answers(404)
       ELSE IF ~Inside(resolved_path', resolved_root) THEN Answers(403)
       ELSE where' = "open" /\ UNCHANGED code
    /\ UNCHANGED <<files, static_dir, request_path, resolved_root, filepath,
                   opened, changes>>

\* papago_res_sendfile: open, then fstat on the descriptor.
SendStatic ==
    /\ where = "open"
    /\ IF Kind(files, resolved_path) # "file"
         THEN Answers(500) /\ UNCHANGED opened
         ELSE Answers(200) /\ opened' = RealPath(files, resolved_path)
    /\ UNCHANGED <<files, static_dir, names, changes, fresh>>

\* There is no descriptor left, or fcntl fails; the response says so.
SendFileFails ==
    /\ where = "open"
    /\ Answers(500)
    /\ fresh' = {}
    /\ UNCHANGED <<files, static_dir, names, opened, changes>>

Answered == where = "answered" /\ UNCHANGED staticVars

StaticNext ==
    \/ \E fs \in FileSystems, dir \in StaticDirs : ConfigureStatic(fs, dir)
    \/ \E p \in RequestPaths :
          \/ \E wildcard \in BOOLEAN : Request(p, wildcard)
          \/ RequestUnconfigured(p)
    \/ ResolveRoot \/ Stat \/ StatIndex \/ ResolvePath
    \/ SendStatic \/ SendFileFails
    \/ \E c \in Changes : Change(c[1], c[2])
    \/ Answered

StaticSpec == StaticInit /\ [][StaticNext]_staticVars

-----------------------------------------------------------------------------
(* Properties                                                              *)

\* Reference: the file a path under static_dir stands for, if it has one.
Meant ==
    LET at == RealPath(files, static_dir \o request_path)
    IN  IF NodeAt(files, at).kind # "dir" THEN at
        ELSE RealPath(files, Append(at, IndexHtml))

\* p is a regular file in or under the root.
FileUnder(p, root) ==
    root # Nowhere /\ IsPrefix(root, p) /\ NodeAt(files, p).kind = "file"

\* Whatever another process does to the file system between the questions, only
\* a regular file is ever sent, and one that lies outside the directory only if
\* something changed after realpath.  When nothing changes, exactly the files
\* in the directory are sent, links in it that lead there included, unless it is
\* the root of the file system or the name is too long.
StaticContained ==
    /\ opened # Nowhere =>
          /\ code = 200 /\ NodeAt(files, opened).kind = "file"
          /\ "realpath" \in fresh => IsPrefix(resolved_root, opened)
    /\ (where = "answered" /\ "handler" \in fresh /\ code # 414
        /\ RealPath(files, static_dir) # <<>>) =>
          LET served == FileUnder(Meant, RealPath(files, static_dir))
          IN  /\ code = 200 <=> served
              /\ served => opened = Meant
=============================================================================
