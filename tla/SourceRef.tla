----------------------------- MODULE SourceRef -----------------------------
(***************************************************************************)
(* internal/source/ref.go as a pure function, and how gonnxctl update uses *)
(* it: the row of an installed bundle holds what ParseRef returned, and an *)
(* update sends just that to ParseRef again.                               *)
(*                                                                         *)
(* A URL is a record of what ParseRef looks at: a git+ prefix, the host,   *)
(* the query's ref and dir, and all the rest, without a second prefix.     *)
(***************************************************************************)
EXTENDS TLAPS

CONSTANTS
  Hosts, Texts, Rests,  \* hosts; non-empty refs and directories; the rest
  Empty,                \* the empty string
  Master,               \* "master"
  Error                 \* ParseRef's error

Strings == Texts \cup {Empty}
Urls == [git : BOOLEAN, host : Hosts \cup {Empty}, ref : Strings, dir : Strings, rest : Rests]

\* A flag takes precedence over the query.
Choose(override, value) == IF override # Empty THEN override ELSE value

\* The prefix, ref and dir are taken off the URL.
Clean(u) == [git |-> FALSE, host |-> u.host, ref |-> Empty, dir |-> Empty, rest |-> u.rest]

ParseRef(u, ref, dir) ==
  IF u.host = Empty THEN Error
  ELSE [RepoURL |-> Clean(u),
        Ref     |-> Choose(Choose(ref, u.ref), Master),
        Subdir  |-> Choose(dir, u.dir)]

\* updateCmd: install again what the row says.
Update(r) == ParseRef(r.RepoURL, r.Ref, r.Subdir)

\* "updateCmd re-installs a bundle from the same source recorded in the
\* registry" (gonnxctl main.go:121): for every URL and every flags of the
\* first install, the update parses to the very same reference, so it comes
\* to the same mirror, branch and directory.
THEOREM UpdateKeepsSource ==
  ASSUME NEW u \in Urls, NEW ref \in Strings, NEW dir \in Strings,
         Master # Empty, u.host # Empty
  PROVE  Update(ParseRef(u, ref, dir)) = ParseRef(u, ref, dir)
<1> DEFINE r == ParseRef(u, ref, dir)
<1>1. r = [RepoURL |-> Clean(u), Ref |-> Choose(Choose(ref, u.ref), Master),
           Subdir |-> Choose(dir, u.dir)]
  BY DEF ParseRef
<1>2. Clean(Clean(u)) = Clean(u)
  BY DEF Clean
<1>3. Choose(Choose(r.Ref, Clean(u).ref), Master) = r.Ref
  <2>1. r.Ref # Empty
    BY <1>1 DEF Choose
  <2> QED
    BY <2>1 DEF Choose
<1>4. Choose(r.Subdir, Clean(u).dir) = r.Subdir
  BY DEF Choose, Clean
<1>5. Update(r) = ParseRef(Clean(u), r.Ref, r.Subdir)
  BY <1>1 DEF Update
<1>6. Clean(u).host # Empty
  BY DEF Clean
<1>7. ParseRef(Clean(u), r.Ref, r.Subdir)
        = [RepoURL |-> Clean(u), Ref |-> r.Ref, Subdir |-> r.Subdir]
  BY <1>2, <1>3, <1>4, <1>6 DEF ParseRef
<1>8. [RepoURL |-> Clean(u), Ref |-> r.Ref, Subdir |-> r.Subdir] = r
  BY <1>1
<1> QED
  BY <1>5, <1>7, <1>8
=============================================================================
