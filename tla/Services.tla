------------------------------ MODULE Services ------------------------------
(***************************************************************************)
(* The services around the publishing core, each from its idle state.      *)
(* They share no state, so a behaviour is one of a single service: part    *)
(* names it, the others stay idle.                                         *)
(***************************************************************************)
EXTENDS ResearchTrends, Migrations, CardQuality, VideoTimeline, Alerts,
        Scoreboard, Credentials, Playbook, MediaStore, CommandLine

VARIABLE part

Parts == {"trends", "migrations", "card", "video", "alerts", "scoreboard",
          "credentials", "playbook", "media", "commands"}

ServicesInit ==
  /\ part \in Parts
  /\ TrendsInit /\ MigrationsInit /\ CardInit /\ VideoInit /\ AlertsInit
  /\ ScoreboardInit /\ TokensInit /\ PlaybookInit /\ MediaInit /\ CommandsInit

ServicesNext ==
  \/ /\ part = "trends" /\ TrendsNext
     /\ UNCHANGED <<part, migrationVars, layoutVars, cardVars, videoVars,
                    alertVars, scoreVars, tokenVars, playbookVars, mediaVars,
                    shellVars>>
  \/ /\ part = "migrations" /\ MigrationsNext
     /\ UNCHANGED <<part, trendsVars, layoutVars, cardVars, videoVars,
                    alertVars, scoreVars, tokenVars, playbookVars, mediaVars,
                    shellVars>>
  \/ /\ part = "card" /\ CardNext
     /\ UNCHANGED <<part, trendsVars, migrationVars, videoVars, alertVars,
                    scoreVars, tokenVars, playbookVars, mediaVars,
                    shellVars>>
  \/ /\ part = "video" /\ VideoNext
     /\ UNCHANGED <<part, trendsVars, migrationVars, layoutVars, cardVars,
                    alertVars, scoreVars, tokenVars, playbookVars, mediaVars,
                    shellVars>>
  \/ /\ part = "alerts" /\ AlertsNext
     /\ UNCHANGED <<part, trendsVars, migrationVars, layoutVars, cardVars,
                    videoVars, scoreVars, tokenVars, playbookVars, mediaVars,
                    shellVars>>
  \/ /\ part = "scoreboard" /\ ScoreboardNext
     /\ UNCHANGED <<part, trendsVars, migrationVars, layoutVars, cardVars,
                    videoVars, alertVars, tokenVars, playbookVars, mediaVars,
                    shellVars>>
  \/ /\ part = "credentials" /\ TokensNext
     /\ UNCHANGED <<part, trendsVars, migrationVars, layoutVars, cardVars,
                    videoVars, alertVars, scoreVars, playbookVars, mediaVars,
                    shellVars>>
  \/ /\ part = "playbook" /\ PlaybookNext
     /\ UNCHANGED <<part, trendsVars, migrationVars, layoutVars, cardVars,
                    videoVars, alertVars, scoreVars, tokenVars, mediaVars,
                    shellVars>>
  \/ /\ part = "media" /\ MediaNext
     /\ UNCHANGED <<part, trendsVars, migrationVars, layoutVars, cardVars,
                    videoVars, alertVars, scoreVars, tokenVars, playbookVars,
                    shellVars>>
  \/ /\ part = "commands" /\ CommandsNext
     /\ UNCHANGED <<part, trendsVars, migrationVars, layoutVars, cardVars,
                    videoVars, alertVars, scoreVars, tokenVars, playbookVars,
                    mediaVars>>

servicesVars == <<part, trendsVars, migrationVars, layoutVars, cardVars,
                  videoVars, alertVars, scoreVars, tokenVars, playbookVars,
                  mediaVars, shellVars>>

ServicesSpec == ServicesInit /\ [][ServicesNext]_servicesVars

(* Every variable of every service stays in its type.                      *)
ServicesTypeOK ==
  /\ part \in Parts
  /\ TrendsTypeOK /\ MigrationsTypeOK /\ CardTypeOK /\ VideoTypeOK
  /\ AlertsTypeOK /\ ScoreboardTypeOK /\ TokensTypeOK /\ PlaybookTypeOK
  /\ MediaTypeOK /\ CommandsTypeOK
=============================================================================
