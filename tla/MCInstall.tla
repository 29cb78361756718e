----------------------------- MODULE MCInstall -----------------------------
(* One management container of two is needed by coolifygo's port; a volume *)
(* of each kind; two images of one prefix; a container of the user that    *)
(* was built on alpine and mounts one of the databases' volumes; the other *)
(* is coolifygo's already; another that runs the first of the two images.  *)
EXTENDS InstallProps

CONSTANTS coolify, fluentbit, pgdb, src1, src2, img1, img2, alpine, infra, data, app, db, db2,
          bot, helper

MCContainers == <<coolify, fluentbit>>
MCVolumes    == <<pgdb>>
MCSources    == <<src1, src2>>
MCImages     == <<img1, img2>>
MCPaths      == <<data>>
MCPrefixOf   == [i \in {img1, img2} |-> "coollabsio/coolify"]
MCHolders ==
    [o \in {coolify, fluentbit, pgdb, src1, src2, img1, img2, alpine, infra, data} |->
        CASE o \in {pgdb, infra} -> {coolify}
          [] o = img1 -> {coolify, helper}
          [] o = img2 -> {fluentbit}
          [] o \in {alpine, src2} -> {bot}
          [] OTHER -> {}]
MCMgmt      == {coolify, fluentbit}
MCWorkloads == {app, db, db2}
MCDataOf    == [w \in {db, db2} |-> IF w = db THEN src1 ELSE src2]
MCStrangers == {bot, helper}
MCOwned     == {src1}
=============================================================================
