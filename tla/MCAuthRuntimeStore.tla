------------------------- MODULE MCAuthRuntimeStore -------------------------
(* Small instances of AuthRuntimeStore for TLC. *)
EXTENDS AuthRuntimeStore, TLC

CONSTANTS r1, r2

TwoThreads == {r1, r2}

inline == Rule("inline", "i", "plain", {"*"}, 0)
upload == Rule("upload", "u", "sha256", {"upload"}, 0)
short  == Rule("short", "u", "sha256", {"upload"}, 1)

Inline == <<inline>>

(* Two valid files, in one of which an expiring rule comes before a rule with
   the same secret, one that repeats an inline name and a malformed one. *)
Files == {<<upload>>, <<short, upload>>, <<[upload EXCEPT !.name = "inline"]>>,
          <<upload, [short EXCEPT !.form = "plain"]>>}
(* Only valid files: what the startup and failure scenarios need. *)
ValidFiles == {<<upload>>, <<short>>}

Bearer(secret, scope) == [header |-> "bearer", secret |-> secret, scope |-> scope]
SomeRequests == {Bearer("u", "upload"), Bearer("u", "admin"), Bearer("i", "admin"),
                 Bearer("legacy", "admin"), [Bearer("u", "upload") EXCEPT !.header = "none"],
                 [Bearer("u", "upload") EXCEPT !.header = "basic"]}

Symmetry == Permutations(Threads)
=============================================================================
