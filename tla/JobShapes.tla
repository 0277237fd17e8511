------------------------------ MODULE JobShapes ------------------------------
(***************************************************************************)
(* The shape of the work compile() makes of a Hash: what any list of jobs  *)
(* and any rest of it has in common, whatever the Ruby schema.             *)
(***************************************************************************)
EXTENDS RubySchema

(* The keys a path can hold.                                               *)
Name == {k \in DOMAIN Pieces : k \in STRING}

WellMade(job) ==
  /\ job \in JobType /\ job.keys \in Seq(Name)
  /\ job.do = "single" => job.kw \in SingleKeyword
  /\ job.do \in {"element", "keep", "store"} => job.kw \in ListKeyword
  /\ job.do \in {"single", "element", "nested"} => job.keys # <<>>

(* An element is kept before anything else happens, and what is kept is    *)
(* stored before another keyword is read.                                  *)
Paired(jobs) ==
  \A i \in 1 .. Len(jobs) :
    /\ jobs[i].do = "element" => i < Len(jobs) /\ jobs[i + 1].do = "keep"
    /\ jobs[i].do = "keep" => i < Len(jobs) /\ jobs[i + 1].do \in {"element", "store"}
    /\ i < Len(jobs) /\ jobs[i + 1].do = "keep" => jobs[i].do = "element"

(* No field of the struct is assigned twice.                               *)
Once(jobs) ==
  \A i, j \in 1 .. Len(jobs) :
    i < j /\ jobs[i].do = jobs[j].do /\ jobs[i].do \in {"single", "store"}
      => jobs[i].kw # jobs[j].kw

(* The schemas under unknown keywords come last, after their allocation.   *)
NestedAfter(jobs, k) ==
  /\ \A i \in 1 .. Len(jobs) : jobs[i].do = "nested" <=> i > k
  /\ \A i \in 1 .. Len(jobs) : jobs[i].do = "alloc" => i = k

Allocates(jobs, k) == k > 0 /\ jobs[k].do = "alloc"

Shaped(jobs) ==
  jobs \in Seq(JobType) /\ (\A i \in 1 .. Len(jobs) : WellMade(jobs[i])) /\ Paired(jobs) /\ Once(jobs)
=============================================================================
