----------------------------- MODULE OrderStatus -----------------------------
(***************************************************************************)
(* The statuses of a service order and the transition table of the desk.   *)
(* FINALIZADA, which both also have, is written by no modelled handler.    *)
(***************************************************************************)

Status == {"ABERTA", "OFERTADA", "ATRIBUIDA", "A_CAMINHO", "EM_EXECUCAO",
           "AJUSTE", "RECUSADA", "CONCLUIDA", "APROVADA", "CANCELADA"}

(* Mutant: CANCELADA forgotten. *)
TerminalWithoutCancelled == {"CONCLUIDA", "APROVADA"}

TERMINAL_STATUSES == {"CONCLUIDA", "APROVADA", "CANCELADA"}

ALLOWED_TRANSITIONS ==
  [ABERTA      |-> {"OFERTADA", "ATRIBUIDA", "CANCELADA"},
   OFERTADA    |-> {"ATRIBUIDA", "ABERTA", "RECUSADA", "CANCELADA"},
   ATRIBUIDA   |-> {"A_CAMINHO", "EM_EXECUCAO", "ABERTA", "CANCELADA"},
   A_CAMINHO   |-> {"EM_EXECUCAO", "ATRIBUIDA", "CANCELADA"},
   EM_EXECUCAO |-> {"CONCLUIDA", "AJUSTE", "CANCELADA"},
   AJUSTE      |-> {"EM_EXECUCAO", "CANCELADA"},
   CONCLUIDA   |-> {"APROVADA", "AJUSTE"},
   APROVADA    |-> {},
   CANCELADA   |-> {},
   RECUSADA    |-> {"OFERTADA", "ABERTA", "CANCELADA"}]
=============================================================================
