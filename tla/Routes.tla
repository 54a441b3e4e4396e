----------------------------- MODULE Routes -----------------------------
(***************************************************************************)
(* The routes of the API that need a session, as data: one record for each *)
(* handler, and the rules of role-based access control.                    *)
(*                                                                         *)
(*   on     the kind of row the path or the body names ("organization":    *)
(*          the one of the session)                                        *)
(*   loads  the handler finds that row, or answers 404, before it          *)
(*          authorizes; otherwise it authorizes first                      *)
(*   act    the action it authorizes                                       *)
(*   does   what happens to rows of the kind "kind"                        *)
(*   ok     the status of the answer when all went well                    *)
(*   also   statuses of the refusals of the services, besides 404          *)
(*                                                                         *)
(* Errors are named by the status ErrorService gives them: ValidationError *)
(* and InvariantViolationError 400, UnauthorizedError 401, ForbiddenError  *)
(* 403, NotFoundError 404, ConflictError and InvalidStateTransitionError   *)
(* 409, BusinessRuleViolationError 422, and every other error 500.         *)
(***************************************************************************)
EXTENDS Naturals

Kinds == {"organization", "user", "invitation", "project", "link", "item",
          "attachment", "comment", "log", "notification"}
Statuses == {200, 201, 204, 400, 401, 403, 404, 409, 422, 500}

-----------------------------------------------------------------------------
(* Role-based access control, for internal users: no session of a reviewer   *)
(* passes authentication.                                                    *)

TeamRoles(act) ==
    CASE act \in {"VIEW_ORGANIZATION", "VIEW_INTERNAL_USERS", "VIEW_PROJECT_LIST"}
            -> {"OWNER", "ADMIN", "MEMBER"}
      [] act \in {"UPDATE_ORGANIZATION", "INVITE_INTERNAL_USER", "REMOVE_INTERNAL_USER",
                  "CREATE_PROJECT", "EDIT_PROJECT", "ARCHIVE_PROJECT",
                  "INVITE_PROJECT_REVIEWER", "REMOVE_PROJECT_REVIEWER"}
            -> {"OWNER", "ADMIN"}
      [] act \in {"MANAGE_BILLING", "DELETE_ORGANIZATION", "CHANGE_USER_ROLE"}
            -> {"OWNER"}
      [] OTHER -> {}

ContentRoles(act) ==
    CASE act \in {"CREATE_REVIEW_ITEM", "EDIT_REVIEW_ITEM", "VIEW_REVIEW_ITEM",
                  "SEND_FOR_REVIEW", "UPLOAD_ATTACHMENT", "UPLOAD_NEW_VERSION",
                  "VIEW_ATTACHMENT", "ADD_COMMENT", "DELETE_OWN_COMMENT",
                  "VIEW_ACTIVITY_LOG"}
            -> {"OWNER", "ADMIN", "MEMBER"}
      [] act \in {"DELETE_REVIEW_ITEM", "DELETE_ATTACHMENT", "DELETE_OTHERS_COMMENT"}
            -> {"OWNER", "ADMIN"}
      [] OTHER -> {}    \* APPROVE_REVIEW_ITEM and REQUEST_CHANGES: reviewers only

\* ACTION_HANDLERS: the check of the group of the action.
Can(role, act) == role \in TeamRoles(act) \cup ContentRoles(act)

-----------------------------------------------------------------------------
(* The routes *)

OrganizationRoutes == {
    [name |-> "getOrganization", on |-> "organization", loads |-> FALSE,
     act |-> "VIEW_ORGANIZATION", does |-> "read", kind |-> "organization",
     ok |-> 200, also |-> {}],
    [name |-> "patchOrganization", on |-> "organization", loads |-> FALSE,
     act |-> "UPDATE_ORGANIZATION", does |-> "update", kind |-> "organization",
     ok |-> 200, also |-> {400}]}

TeamRoutes == {
    [name |-> "getUsers", on |-> "organization", loads |-> FALSE,
     act |-> "VIEW_INTERNAL_USERS", does |-> "list", kind |-> "user",
     ok |-> 200, also |-> {}],
    [name |-> "deleteUser", on |-> "user", loads |-> FALSE,
     act |-> "REMOVE_INTERNAL_USER", does |-> "remove", kind |-> "user",
     ok |-> 204, also |-> {403}],
    [name |-> "patchUserRole", on |-> "user", loads |-> FALSE,
     act |-> "CHANGE_USER_ROLE", does |-> "promote", kind |-> "user",
     ok |-> 200, also |-> {403, 409}]}

\* getInvitations also asks for an owner or admin (Requests); "accept" authorizes
\* nothing: the token and the address are the authority.
InvitationRoutes == {
    [name |-> "postInvite", on |-> "organization", loads |-> FALSE,
     act |-> "INVITE_INTERNAL_USER", does |-> "create", kind |-> "invitation",
     ok |-> 201, also |-> {400}],
    [name |-> "getInvitations", on |-> "organization", loads |-> FALSE,
     act |-> "VIEW_INTERNAL_USERS", does |-> "list", kind |-> "invitation",
     ok |-> 200, also |-> {}],
    [name |-> "postAcceptInvitation", on |-> "invitation", loads |-> FALSE,
     act |-> "none", does |-> "accept", kind |-> "invitation",
     ok |-> 200, also |-> {400, 409, 422}]}

ProjectRoutes == {
    [name |-> "getProjects", on |-> "organization", loads |-> FALSE,
     act |-> "VIEW_PROJECT_LIST", does |-> "list", kind |-> "project",
     ok |-> 200, also |-> {}],
    [name |-> "postProjects", on |-> "organization", loads |-> FALSE,
     act |-> "CREATE_PROJECT", does |-> "create", kind |-> "project",
     ok |-> 201, also |-> {400}],
    [name |-> "patchProject", on |-> "project", loads |-> TRUE,
     act |-> "EDIT_PROJECT", does |-> "update", kind |-> "project",
     ok |-> 200, also |-> {400}],
    [name |-> "postArchiveProject", on |-> "project", loads |-> TRUE,
     act |-> "ARCHIVE_PROJECT", does |-> "close", kind |-> "project",
     ok |-> 200, also |-> {422}]}

ReviewerRoutes == {
    [name |-> "getReviewers", on |-> "project", loads |-> TRUE,
     act |-> "VIEW_PROJECT_LIST", does |-> "list", kind |-> "link",
     ok |-> 200, also |-> {}],
    [name |-> "postReviewer", on |-> "project", loads |-> TRUE,
     act |-> "INVITE_PROJECT_REVIEWER", does |-> "create", kind |-> "invitation",
     ok |-> 201, also |-> {409, 422}],
    [name |-> "deleteReviewer", on |-> "link", loads |-> TRUE,
     act |-> "REMOVE_PROJECT_REVIEWER", does |-> "close", kind |-> "link",
     ok |-> 204, also |-> {}]}

ItemRoutes == {
    [name |-> "getReviewItems", on |-> "organization", loads |-> FALSE,
     act |-> "VIEW_REVIEW_ITEM", does |-> "list", kind |-> "item",
     ok |-> 200, also |-> {}],
    [name |-> "postReviewItems", on |-> "project", loads |-> FALSE,
     act |-> "CREATE_REVIEW_ITEM", does |-> "create", kind |-> "item",
     ok |-> 201, also |-> {}],
    [name |-> "getReviewItem", on |-> "item", loads |-> TRUE,
     act |-> "VIEW_REVIEW_ITEM", does |-> "read", kind |-> "item",
     ok |-> 200, also |-> {}],
    [name |-> "postArchive", on |-> "item", loads |-> FALSE,
     act |-> "DELETE_REVIEW_ITEM", does |-> "close", kind |-> "item",
     ok |-> 204, also |-> {409}],
    [name |-> "getActivity", on |-> "item", loads |-> TRUE,
     act |-> "VIEW_ACTIVITY_LOG", does |-> "list", kind |-> "log",
     ok |-> 200, also |-> {}]}

WorkflowRoutes == {
    [name |-> "postSend", on |-> "item", loads |-> TRUE,
     act |-> "SEND_FOR_REVIEW", does |-> "update", kind |-> "item",
     ok |-> 200, also |-> {400, 409, 422}],
    [name |-> "postApprove", on |-> "item", loads |-> TRUE,
     act |-> "APPROVE_REVIEW_ITEM", does |-> "update", kind |-> "item",
     ok |-> 200, also |-> {400, 409}],
    [name |-> "postRequestChanges", on |-> "item", loads |-> TRUE,
     act |-> "REQUEST_CHANGES", does |-> "update", kind |-> "item",
     ok |-> 200, also |-> {400, 409}]}

AttachmentRoutes == {
    [name |-> "postPresign", on |-> "item", loads |-> FALSE,
     act |-> "UPLOAD_ATTACHMENT", does |-> "update", kind |-> "item",
     ok |-> 200, also |-> {}],
    [name |-> "postAttachment", on |-> "item", loads |-> FALSE,
     act |-> "UPLOAD_ATTACHMENT", does |-> "create", kind |-> "attachment",
     ok |-> 201, also |-> {409}],
    [name |-> "getAttachments", on |-> "item", loads |-> TRUE,
     act |-> "VIEW_ATTACHMENT", does |-> "list", kind |-> "attachment",
     ok |-> 200, also |-> {}],
    [name |-> "deleteAttachment", on |-> "attachment", loads |-> FALSE,
     act |-> "DELETE_ATTACHMENT", does |-> "close", kind |-> "attachment",
     ok |-> 204, also |-> {}]}

CommentRoutes == {
    [name |-> "getComments", on |-> "item", loads |-> FALSE,
     act |-> "VIEW_REVIEW_ITEM", does |-> "list", kind |-> "comment",
     ok |-> 200, also |-> {}],
    [name |-> "postComment", on |-> "item", loads |-> TRUE,
     act |-> "ADD_COMMENT", does |-> "create", kind |-> "comment",
     ok |-> 201, also |-> {400}],
    [name |-> "deleteComment", on |-> "comment", loads |-> TRUE,
     act |-> "DELETE_OTHERS_COMMENT", does |-> "erase", kind |-> "comment",
     ok |-> 204, also |-> {}]}

NotificationRoutes == {
    [name |-> "getNotifications", on |-> "organization", loads |-> FALSE,
     act |-> "VIEW_ORGANIZATION", does |-> "list", kind |-> "notification",
     ok |-> 200, also |-> {}],
    [name |-> "patchNotificationRead", on |-> "notification", loads |-> FALSE,
     act |-> "VIEW_ORGANIZATION", does |-> "mark", kind |-> "notification",
     ok |-> 200, also |-> {}]}

Routes == OrganizationRoutes \cup TeamRoutes \cup InvitationRoutes \cup ProjectRoutes
          \cup ReviewerRoutes \cup ItemRoutes \cup WorkflowRoutes
          \cup AttachmentRoutes \cup CommentRoutes \cup NotificationRoutes
=============================================================================
