----------------------------- MODULE MCNotifier ------------------------------
(* Instances of Notifier, with windows of a few seconds.                    *)
EXTENDS Notifier
=============================================================================
