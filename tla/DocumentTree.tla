---------------------------- MODULE DocumentTree ----------------------------
(***************************************************************************)
(* Which file a request names and whether it may be served:                *)
(* Server::selectDocumentRoot, security::resolveSafePath,                  *)
(* Server::isForbiddenFile and Htaccess.                                   *)
(*                                                                         *)
(* A path is a sequence of names from the root of the file system, without *)
(* empty ones and ".".  What is in the tree and where its symbolic links   *)
(* lead does not change; the .htaccess files are a function from           *)
(* directories to their lines, or Absent, that operators are given.  Of    *)
(* their lines, Require all denied and granted are told from the rest.     *)
(***************************************************************************)
EXTENDS Integers, Sequences, SequencesExt

CONSTANTS
    Kind,         \* what the disk holds, links apart: "dir" or "file", by place
    Links,        \* symbolic links: where they lead
    Roots,        \* virtual hosts: their document roots
    DefaultRoot,  \* the document root of every other host
    Scripts,      \* names with the extension of PHP
    Hidden,       \* names that begin with a dot
    DotDot,       \* names that begin with two dots
    RuleNames,    \* names that are htaccess_filename, in lower case
    Sensitive,    \* names and extensions that are never served
    Odd,          \* names with a backslash, a NUL or an encoding left in them
    Depth,        \* max_htaccess_depth
    Absent        \* no such file

IsPath(p) == p \in Seq({p[i] : i \in DOMAIN p})

selectDocumentRoot(host) == IF host \in DOMAIN Roots THEN Roots[host] ELSE DefaultRoot

IsDirectory(place) == place \in DOMAIN Kind /\ Kind[place] = "dir"

(* The kernel's walk, name by name: links are followed, ".." goes up, and  *)
(* what is not a directory cannot be entered.                              *)
Enter(at, name) ==
    LET to == Append(at, name)
    IN  IF ~IsDirectory(at) THEN Absent
        ELSE IF name = ".." THEN SubSeq(at, 1, Len(at) - 1)
        ELSE IF to \in DOMAIN Links THEN Links[to] ELSE to

Walk(path) == FoldLeft(Enter, <<>>, path)

(* Where the file that a path names is on the disk; Absent if it is not.   *)
Place(path) == IF Walk(path) \in DOMAIN Kind THEN Walk(path) ELSE Absent

(* Application::run starts a server only if its document roots are there.  *)
ASSUME TreeAssumption ==
    /\ Depth \in Nat \ {0} /\ {".", ".."} \subseteq Hidden
    /\ Absent \notin DOMAIN Kind /\ \A path \in DOMAIN Kind : IsPath(path) /\ Place(path) = path
    /\ Place(DefaultRoot) # Absent /\ \A host \in DOMAIN Roots : Place(Roots[host]) # Absent

(* ".." by the names alone.                                                *)
Normal(at, name) == IF name = ".." THEN SubSeq(at, 1, Len(at) - 1) ELSE Append(at, name)

Existing(path) == CHOOSE n \in 0 .. Len(path) :
    /\ Place(SubSeq(path, 1, n)) # Absent
    /\ \A k \in n + 1 .. Len(path) : Place(SubSeq(path, 1, k)) = Absent

(* weakly_canonical: the place of the longest part that exists, and the    *)
(* names behind it as they are written.  A link behind a name that is not  *)
(* there is not followed, although ".." may lead back to it.               *)
Canonical(path) ==
    IF Place(path) # Absent THEN Place(path)
    ELSE LET n == Existing(path)
         IN  FoldLeft(Normal, Place(SubSeq(path, 1, n)), SubSeq(path, n + 1, Len(path)))

(* Mutant: the paths are compared as they are. *)
InRootAsIs(path, root) == IsPrefix(root, path)

(* startsWithPath makes both canonical once more.                          *)
InRoot(path, root) == IsPrefix(Canonical(root), Canonical(path))

(* The file a target names: index.html for a directory.                    *)
Candidate(root, target) ==
    LET path == root \o (IF target = <<>> THEN <<"index.html">> ELSE target)
    IN  IF IsDirectory(Place(path)) THEN Append(path, "index.html") ELSE path

(* resolveSafePath; Absent is std::nullopt.                                *)
Resolve(root, target) ==
    LET file == Canonical(Candidate(root, target))
    IN  IF (\E i \in DOMAIN target : target[i] \in Odd) \/ ~InRoot(file, Canonical(root))
        THEN Absent ELSE file

(* lexically_relative, for a path that is base or below it.                *)
Relative(path, base) == IF path = base THEN <<".">> ELSE SubSeq(path, Len(base) + 1, Len(path))

HiddenWithin(names, c) ==
    \E i \in DOMAIN names : names[i] \in Hidden /\ ~(c.wellKnown /\ names[i] = ".well-known")

Withheld(name, c) == name \in RuleNames \/ (c.blockSensitive /\ name \in Sensitive)

(* isForbiddenFile, with the settings it looks at: hidden names are sought *)
(* on the way to the file's place, the others are the file's name in the   *)
(* path that resolveSafePath returned.                                     *)
Forbidden(root, file, c) ==
    \/ c.denyHidden /\ HiddenWithin(Relative(Canonical(file), Canonical(root)), c)
    \/ Withheld(Last(file), c)

(* Where Htaccess::evaluate begins.                                        *)
Directory(file) ==
    IF IsDirectory(Place(file)) THEN Canonical(file) ELSE Canonical(Front(file))

(* The loop that collects directories goes up as long as this holds.       *)
Below(root, dir) ==
    IsPrefix(root, dir) /\ (Len(dir) > Len(root) => dir[Len(root) + 1] \notin DotDot)

(* The directories it reads, outermost first: it collects them upwards, so *)
(* that a limit leaves out the outermost.                                  *)
RuleDirs(root, file) ==
    LET dir       == Directory(file)
        outermost == Max({Len(Canonical(root)), Len(dir) - Depth + 1})
    IN  IF Below(Canonical(root), dir)
        THEN [i \in 1 .. Len(dir) - outermost + 1 |-> SubSeq(dir, 1, outermost + i - 1)]
        ELSE <<>>

(* parseFile: the last Require counts.                                     *)
Denies(lines) ==
    LET requires == SelectSeq(lines, LAMBDA l : l \in {"denied", "granted"})
    IN  requires # <<>> /\ Last(requires) = "denied"

LinesIn(rules, dir) == IF dir \in DOMAIN rules THEN rules[dir] ELSE Absent

(* Mutant: what an outer directory denies stays denied. *)
AfterDirKeeps(denied, lines) == denied \/ Denies(lines)

(* One round of evaluate's loop, for a directory that has a .htaccess: it  *)
(* decides anew, also if that file does not mention access.                *)
AfterDir(denied, lines) == Denies(lines)
=============================================================================
