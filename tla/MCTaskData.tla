---------------------------- MODULE MCTaskData ----------------------------
(* Profiles of two tasks: one shares a file that is read once, one has a   *)
(* file read in circles and a second file, which is the first one of the   *)
(* other task; one has a file that does not exist, one a folder; one has   *)
(* no file and a negative index.  The file read once has an empty line,    *)
(* the one read in circles loses its last one.                             *)
EXTENDS TaskData

CONSTANTS t1, t2, t3, t4, t5, t6, once, circle, random, absent, folder

SomeTasks == {t1, t2, t3, t4, t5, t6}
SomeFiles == {once, circle, random, absent, folder}
SomeProfiles == {{t1, t2}, {t3, t4}, {t1, t5}, {t4, t6}}
OnceProfile == {{t1}}

Files == t1 :> <<once>> @@ t2 :> <<once, absent>> @@ t3 :> <<circle, random>>
           @@ t4 :> <<random>> @@ t5 :> <<folder>> @@ t6 :> <<>>
Kinds == once :> "once" @@ circle :> "circle" @@ random :> "random" @@ absent :> "once"
           @@ folder :> "random"

ContentOf(sizes, ended) == [sizes |-> sizes, ended |-> ended]
Contents ==
  once :> ContentOf(<<1, 0, 2>>, TRUE) @@ circle :> ContentOf(<<1, 3, 2>>, FALSE)
  @@ random :> ContentOf(<<3>>, FALSE) @@ absent :> Missing @@ folder :> Folder

Columns == once :> 2 @@ circle :> 1 @@ random :> 1 @@ absent :> 1
             @@ folder :> 1

P(f, i) == [file |-> f, index |-> i]
Placeholders ==
  t1 :> << <<P(once, 0)>>, <<P(once, 1)>> >>
  @@ t2 :> << <<>> >>
  @@ t3 :> << <<P(circle, 0)>>, <<P(circle, 2)>> >>
  @@ t4 :> << <<P(random, 0)>> >> @@ t5 :> << <<>> >>
  @@ t6 :> << <<P(random, 1)>>, <<P(random, -1)>> >>
=============================================================================
