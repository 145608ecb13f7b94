-------------------------- MODULE MCAvatarLifecycle --------------------------
EXTENDS AvatarLifecycle

CONSTANTS t1, t2, t3, b1, b2

Calls == {t1, t2, t3}
Boots == <<b1, b2>>
Statics == <<"hood", "aegura">>
NoLists == <<>>
OwnersOnly == <<"ageOwners">>

CreateAvatar == [NoJob EXCEPT !.kind = "createAvatar", !.name = "Yeesha"]
CreateAge(key) == [NoJob EXCEPT !.kind = "createAge", !.key = key]
DeleteAvatarOf(u) == [NoJob EXCEPT !.kind = "deleteAvatar", !.of = u]

Jobs(j1, j2, j3) == (t1 :> j1) @@ (t2 :> j2) @@ (t3 :> j3)

Plain == [jobs |-> Jobs(NoJob, NoJob, NoJob), boots |-> 1, settled |-> {},
          meddling |-> FALSE, busy |-> FALSE, failing |-> Task]

\* Two avatars of one name at a time.
Namesakes == [Plain EXCEPT !.jobs = Jobs(CreateAvatar, CreateAvatar, NoJob)]

\* An avatar that is deleted while it is created.
Hasty == [Plain EXCEPT !.jobs = Jobs(CreateAvatar, DeleteAvatarOf(t1), NoJob)]

\* An avatar that is played and deleted.
Played == [Hasty EXCEPT !.settled = {t2}, !.busy = TRUE]

\* An avatar that is deleted twice.
Rivals == [Plain EXCEPT !.jobs = Jobs(CreateAvatar, DeleteAvatarOf(t1), DeleteAvatarOf(t1)),
                        !.settled = {t2, t3}, !.failing = {t2}]

\* Two clients make one age instance, a third makes one more neighborhood.
Builders == [Plain EXCEPT !.jobs = Jobs(CreateAge(<<t1, "Garden">>), CreateAge(<<t1, "Garden">>),
                                        CreateAge(<<t3, "hood">>))]

\* A restart, with an avatar and an age that is static.
Restarts == [Plain EXCEPT !.jobs = Jobs(CreateAvatar, CreateAge(<<Config, "hood">>), NoJob),
                          !.boots = 2, !.meddling = TRUE]

Loads == {Namesakes, Hasty, Played, Rivals, Builders, Restarts}
=============================================================================
