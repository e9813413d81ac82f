------------------------------ MODULE Restart ------------------------------
(***************************************************************************)
(* Restart files: write_restart and read_restart of src/output.cpp and     *)
(* include/gp.hpp, in a job of several MPI ranks that may end at any       *)
(* moment and be started again.                                            *)
(*                                                                         *)
(* Each rank has an object of its own and, for each restart number, a file *)
(* of its own, which it truncates and overwrites in place.  Nothing in a   *)
(* file says how long it ought to be, and no result of a read is looked    *)
(* at.  The ranks commit together, as the macro-scale code makes them, and *)
(* write at their own pace.  When one of them dies the job does.           *)
(*                                                                         *)
(* Data.  A piece of an array holds the step it is of, and Zero if nobody  *)
(* has computed it.  A piece is written and read as a whole: a double of   *)
(* which a crash leaves a part of the bytes in the file, and which read    *)
(* fills to that part, is not among them.  The arrays of the k side (the   *)
(* trial) are kept, since they must not get into a file.                   *)
(***************************************************************************)
EXTENDS Integers, Sequences

CONSTANTS
  Rank,      \* MPI ranks
  ngp,       \* number of Gauss points of each rank
  Id,        \* restart numbers in use
  NV, NU,    \* pieces of vars_n, and of u_n
  Loads,     \* load histories: the step at which each point of each rank
             \* passes its limit
  MaxStep,   \* bound: macro-scale steps
  MaxWrites  \* bound: calls of write_restart

ASSUME RestartAssumption ==
  /\ ngp \in [Rank -> Nat \ {0}]
  /\ NV \in Nat \ {0} /\ NU \in Nat \ {0}
  /\ \A load \in Loads : \A r \in Rank : load[r] \in [1 .. ngp[r] -> Nat]
  /\ MaxStep \in Nat /\ MaxWrites \in Nat

Point(r) == 1 .. ngp[r]

VARIABLES
  job,      \* "run", "write", "read", "restored" or "down"
  id,       \* the restart number being written or read
  step,     \* macro-scale steps committed
  load,     \* the load history
  trial,    \* homogenize() has been called since the last commit
  mem,      \* the points of each rank
  fresh,    \* they were new when the file was read
  writer,   \* where each rank is in write_restart: "open", "write", "closed"
  igp,      \* the point the loop of each rank is at
  put,      \* pieces of it that have been written
  get,      \* pieces of its file each rank has read
  disk,     \* the files; one that does not exist reads as an empty one
  meant,    \* of each file: the points it was last opened to be given
  whole,    \* of each restart number: all ranks came back from the last call
  stepOf,   \* ... and the step it was made at
  writes    \* calls so far

processVars == <<step, trial, mem, fresh>>
streamVars == <<igp, put, get>>
callVars == <<meant, whole, stepOf, writes>>
vars == <<job, id, load, processVars, writer, streamVars, disk, callVars>>

Zero == <<>>
Value(r, p, s) == <<r, p, s>>

Array(n, v) == [i \in 1 .. n |-> v]

(* gp_t::init; the arrays come from fresh memory.                          *)
NewPoint == [allocated |-> FALSE,
             vars_n |-> Array(NV, Zero), vars_k |-> Array(NV, Zero),
             u_n |-> Array(NU, Zero), u_k |-> Array(NU, Zero)]

NewPoints(r) == [p \in Point(r) |-> NewPoint]

(* The part of points that files are about.                                *)
Saved(points) ==
  [p \in DOMAIN points |-> [allocated |-> points[p].allocated,
                            vars_n |-> points[p].vars_n, u_n |-> points[p].u_n]]

File == Rank \X Id

Init ==
  /\ job = "run" /\ id = CHOOSE i \in Id : TRUE
  /\ load \in Loads
  /\ step = 0 /\ trial = FALSE
  /\ mem = [r \in Rank |-> NewPoints(r)] /\ fresh = TRUE
  /\ writer = [r \in Rank |-> "closed"]
  /\ igp = [r \in Rank |-> 1] /\ put = [r \in Rank |-> 0] /\ get = [r \in Rank |-> 0]
  /\ disk = [f \in File |-> <<>>]
  /\ meant = [f \in File |-> Saved(NewPoints(f[1]))]
  /\ whole = [i \in Id |-> FALSE]
  /\ stepOf = [i \in Id |-> 0]
  /\ writes = 0

(* Bound: a job started from files that are not whole is not followed.     *)
GoesOn == job = "run" \/ (job = "restored" /\ whole[id])

(***************************************************************************)
(* The steps of the computation, as far as files can tell.                 *)
(***************************************************************************)

(* homogenize() of a point: it evolves from the step on at which it passes *)
(* its limit.                                                              *)
Solved(r, p, g) ==
  LET evolves == step + 1 >= load[r][p] \/ g.allocated
  IN  [g EXCEPT !.allocated = evolves,
                !.u_k = Array(NU, Value(r, p, step + 1)),
                !.vars_k = IF evolves THEN Array(NV, Value(r, p, step + 1)) ELSE @]

Homogenize ==
  /\ GoesOn
  /\ ~trial /\ step < MaxStep
  /\ mem' = [r \in Rank |-> [p \in Point(r) |-> Solved(r, p, mem[r][p])]]
  /\ job' = "run"
  /\ trial' = TRUE
  /\ UNCHANGED <<id, load, step, fresh, writer, streamVars, disk, callVars>>

(* update_vars() of all ranks.                                             *)
UpdateVars ==
  /\ job = "run" /\ trial
  /\ mem' = [r \in Rank |-> [p \in Point(r) |->
               [mem[r][p] EXCEPT !.vars_n = mem[r][p].vars_k, !.vars_k = mem[r][p].vars_n,
                                 !.u_n = mem[r][p].u_k, !.u_k = mem[r][p].u_n]]]
  /\ trial' = FALSE
  /\ step' = step + 1
  /\ UNCHANGED <<job, id, load, fresh, writer, streamVars, disk, callVars>>

(***************************************************************************)
(* write_restart.                                                          *)
(***************************************************************************)

(* The name, micropp-restart-<mpi_rank>-<restart_id>.bin.                  *)
FileOf(r, i) == <<r, i>>

(* What gp_t::write_restart puts into the file: a point that has stayed    *)
(* linear leaves its flag and nothing else.                                *)
RecordSize(g) == IF g.allocated THEN 1 + NV + NU ELSE 1

Record(g) == [k \in 1 .. RecordSize(g) |->
                CASE k = 1 -> g.allocated
                  [] k \in 2 .. NV + 1 -> g.vars_n[k - 1]
                  [] OTHER -> g.u_n[k - NV - 1]]

(* The macro-scale code has all its ranks write.                           *)
WriteRestart(i) ==
  /\ GoesOn
  /\ writes < MaxWrites /\ writes' = writes + 1
  /\ job' = "write" /\ id' = i
  /\ writer' = [r \in Rank |-> "open"]
  /\ whole' = [whole EXCEPT ![i] = FALSE]
  /\ stepOf' = [stepOf EXCEPT ![i] = step]
  /\ UNCHANGED <<load, processVars, streamVars, disk, meant>>

(* ofstream::open truncates.                                               *)
Open(r) ==
  /\ job = "write" /\ writer[r] = "open"
  /\ writer' = [writer EXCEPT ![r] = "write"]
  /\ disk' = [disk EXCEPT ![FileOf(r, id)] = <<>>]
  /\ meant' = [meant EXCEPT ![<<r, id>>] = Saved(mem[r])]
  /\ UNCHANGED <<job, id, load, processVars, streamVars, whole, stepOf, writes>>

(* The next piece of the point the loop is at.                             *)
WritePiece(r) ==
  LET record == Record(mem[r][igp[r]])
      last == put[r] + 1 = Len(record)
  IN  /\ job = "write" /\ writer[r] = "write"
      /\ igp[r] <= ngp[r]
      /\ disk' = [disk EXCEPT ![FileOf(r, id)] = Append(@, record[put[r] + 1])]
      /\ put' = [put EXCEPT ![r] = IF last THEN 0 ELSE @ + 1]
      /\ igp' = [igp EXCEPT ![r] = IF last THEN @ + 1 ELSE @]
      /\ UNCHANGED <<job, id, load, processVars, writer, get, callVars>>

(* The last rank to come back lets the macro-scale code go on.             *)
Return(r) ==
  /\ job = "write" /\ writer[r] = "write"
  /\ writer' = [writer EXCEPT ![r] = "closed"]
  /\ igp' = [igp EXCEPT ![r] = 1] /\ put' = [put EXCEPT ![r] = 0]
  /\ IF \A q \in Rank \ {r} : writer[q] = "closed"
       THEN job' = "run" /\ whole' = [whole EXCEPT ![id] = TRUE]
       ELSE UNCHANGED <<job, whole>>
  /\ UNCHANGED <<id, load, processVars, get, disk, meant, stepOf, writes>>

(* Mutant: the last point is still in the buffer of the stream when the    *)
(* routine returns.                                                        *)
CloseUnflushed(r) == igp[r] >= ngp[r] /\ Return(r)

(* The end of the loop, and of the stream.                                 *)
Close(r) == igp[r] > ngp[r] /\ Return(r)

(***************************************************************************)
(* read_restart.                                                           *)
(***************************************************************************)

(* A read past the end of a file leaves what it was to fill as it is.      *)
Piece(file, n, old) == IF n <= Len(file) THEN file[n] ELSE old

(* A point read after the first n pieces of a file; where the file ends,   *)
(* the new vars_n is what the allocation put there.                        *)
ReadWith(g, file, n, allocation) ==
  IF Piece(file, n + 1, g.allocated)
    THEN [g EXCEPT !.allocated = TRUE,
                   !.vars_n = [i \in 1 .. NV |-> Piece(file, n + 1 + i, allocation)],
                   !.vars_k = Array(NV, allocation),
                   !.u_n = [i \in 1 .. NU |-> Piece(file, n + 1 + NV + i, g.u_n[i])]]
    ELSE [g EXCEPT !.allocated = FALSE]

(* Mutant: malloc in place of calloc.                                      *)
ReadPointMalloc(g, file, n) == ReadWith(g, file, n, <<"anything">>)

(* gp_t::read_restart.                                                     *)
ReadPoint(g, file, n) == ReadWith(g, file, n, Zero)

(* Nobody writes while the ranks read.                                     *)
ReadRestart(i, objects, new) ==
  /\ job' = "read" /\ id' = i
  /\ mem' = objects /\ fresh' = new
  /\ trial' = FALSE
  /\ step' = stepOf[i]
  /\ UNCHANGED <<load, writer, streamVars, disk, callVars>>

(* The loop over the points.                                               *)
ReadNext(r) ==
  LET g == ReadPoint(mem[r][igp[r]], disk[FileOf(r, id)], get[r])
  IN  /\ job = "read" /\ igp[r] <= ngp[r]
      /\ mem' = [mem EXCEPT ![r][igp[r]] = g]
      /\ igp' = [igp EXCEPT ![r] = @ + 1]
      /\ get' = [get EXCEPT ![r] = @ + RecordSize(g)]
      /\ UNCHANGED <<job, id, load, step, trial, fresh, writer, put, disk, callVars>>

(* The macro-scale code goes on, from the step of its own file.            *)
Restored ==
  /\ job = "read" /\ \A r \in Rank : igp[r] > ngp[r]
  /\ job' = "restored"
  /\ igp' = [r \in Rank |-> 1] /\ get' = [r \in Rank |-> 0]
  /\ UNCHANGED <<id, load, processVars, writer, put, disk, callVars>>

(* Into the objects in use, as long as their process lives: what it reads  *)
(* it has written to the end ...                                           *)
RollBack(i) == job = "run" /\ whole[i] /\ ReadRestart(i, mem, FALSE)

(* ... and into new ones.                                                  *)
StartAgain(i) == job = "down" /\ ReadRestart(i, [r \in Rank |-> NewPoints(r)], TRUE)

(* A rank dies, wherever it is, and the job with it: the files keep what   *)
(* has been written.                                                       *)
Crash ==
  /\ job # "down"
  /\ job' = "down"
  /\ mem' = [r \in Rank |-> NewPoints(r)]
  /\ step' = 0 /\ trial' = FALSE /\ fresh' = TRUE
  /\ writer' = [r \in Rank |-> "closed"]
  /\ igp' = [r \in Rank |-> 1] /\ put' = [r \in Rank |-> 0] /\ get' = [r \in Rank |-> 0]
  /\ UNCHANGED <<id, load, disk, callVars>>

Next ==
  \/ Homogenize \/ UpdateVars \/ Restored \/ Crash
  \/ \E i \in Id : WriteRestart(i) \/ RollBack(i) \/ StartAgain(i)
  \/ \E r \in Rank : Open(r) \/ WritePiece(r) \/ Close(r) \/ ReadNext(r)

Spec == Init /\ [][Next]_vars

(***************************************************************************)
(* Properties.                                                             *)
(***************************************************************************)

(* A set of files that all ranks came back from writing restores, whatever *)
(* was written or torn under other numbers since: the flags, and history   *)
(* and field of every allocated point, on all ranks those of the same      *)
(* committed step, and in new objects no history for the others.           *)
RestoredIsWritten ==
  job = "restored" /\ whole[id] =>
    \A r \in Rank : \A p \in Point(r) :
      LET g == mem[r][p]
      IN  /\ g.allocated = meant[<<r, id>>][p].allocated
          /\ g.allocated => /\ g.vars_n = meant[<<r, id>>][p].vars_n
                            /\ g.u_n = meant[<<r, id>>][p].u_n
          /\ fresh /\ ~g.allocated => g.vars_n = Array(NV, Zero)

(* A torn file gives a new object no wrong history: each piece of a point  *)
(* is the one the last write meant it to have, or none.                    *)
TornIsWrittenOrNone ==
  job = "restored" /\ fresh =>
    \A r \in Rank : \A p \in Point(r) :
      LET g == mem[r][p]
          w == meant[<<r, id>>][p]
      IN  /\ g.allocated => w.allocated
          /\ \A i \in 1 .. NV : g.vars_n[i] \in {Zero, w.vars_n[i]}
          /\ \A i \in 1 .. NU : g.u_n[i] \in {Zero, w.u_n[i]}
=============================================================================
