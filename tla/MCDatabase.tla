----------------------------- MODULE MCDatabase -----------------------------
(* A small instance of the migrations, db:seed, the transactions lab, the  *)
(* pages and the shutdown for TLC.  They share no variable, so each        *)
(* reaches in their composition what it reaches alone: one of them, chosen *)
(* at the start, moves.                                                    *)
EXTENDS Migrations, Seed, TransactionsLab, Pages, Shutdown, TLC

VARIABLE moving

DatabaseInit ==
  /\ moving \in {"migrations", "seed", "lab", "pages", "shutdown"}
  /\ MigrationsInit
  /\ moving # "migrations" =>
       /\ hasTable = FALSE
       /\ \A r \in Runner : /\ run[r].command = "migrate"
                            /\ run[r].image = [last |-> 1, edited |-> 0]
  /\ LabInit
  /\ moving # "lab"   => \A q \in LabRequest : lab[q].scenario = "repeat"
  /\ PagesInit
  /\ moving # "pages" => made = << >> /\ walk.kind = "cursor" /\ walk.all
  /\ SeedInit
  /\ ShutdownInit

DatabaseNext ==
  /\ \/ moving = "migrations" /\ MigrationsNext
        /\ UNCHANGED <<seedVars, labVars, pageVars, shutdownVars>>
     \/ moving = "lab" /\ LabNext
        /\ UNCHANGED <<migrationVars, seedVars, pageVars, shutdownVars>>
     \/ moving = "pages" /\ PagesNext
        /\ UNCHANGED <<migrationVars, seedVars, labVars, shutdownVars>>
     \/ moving = "shutdown" /\ ShutdownNext
        /\ UNCHANGED <<migrationVars, seedVars, labVars, pageVars>>
     \/ moving = "seed" /\ SeedNext
        /\ UNCHANGED <<migrationVars, labVars, pageVars, shutdownVars>>
  /\ UNCHANGED moving

DatabaseSpec ==
  DatabaseInit
    /\ [][DatabaseNext]_<<migrationVars, seedVars, labVars, pageVars,
                          shutdownVars, moving>>

\* The invariants that DatabaseProofs proves, inductive and with the types of
\* its module.  What does not move is as it started.
DatabaseInv ==
  /\ moving = "migrations" => MigrationsInv
  /\ moving = "seed"       => SeedInv
  /\ moving = "lab"        => LabInv /\ LabKept
  /\ moving = "pages"      => PagesInv
  /\ moving = "shutdown"   => ShutdownInv

Alike == Permutations(Runner)
=============================================================================
