----------------------------- MODULE ApiDocs -----------------------------
(***************************************************************************)
(* The statuses the published description of the API (buildOpenAPISpec)    *)
(* gives for the routes that need a session and for the calls to /auth, as *)
(* pairs of a status and a route.                                          *)
(***************************************************************************)

OrganizationDocs ==
         ({200, 401, 500} \X {"getOrganization"})
    \cup ({200, 400, 401, 403, 500} \X {"patchOrganization"})

TeamDocs ==
         ({200, 401, 403, 500} \X {"getUsers"})
    \cup ({201, 400, 401, 403, 500} \X {"postInvite"})

InvitationDocs ==
         ({200, 401, 403, 404, 500} \X {"getInvitations"})
    \cup ({200, 401, 404, 500} \X {"postAcceptInvitation"})

MemberDocs ==
         ({204, 401, 403, 404, 500} \X {"deleteUser"})
    \cup ({200, 400, 401, 403, 404, 500} \X {"patchUserRole"})

ProjectDocs ==
         ({200, 401, 404, 500} \X {"getProjects"})
    \cup ({200, 400, 401, 500} \X {"postProjects"})

OneProjectDocs ==
         ({200, 400, 401, 404, 500} \X {"patchProject"})
    \cup ({200, 401, 403, 404, 500} \X {"postArchiveProject"})

ReviewerDocs ==
         ({200, 401, 403, 404, 500} \X {"getReviewers"})
    \cup ({201, 400, 401, 403, 404, 500} \X {"postReviewer"})

OneReviewerDocs == ({204, 401, 403, 404, 500} \X {"deleteReviewer"})

ItemDocs ==
         ({200, 401, 404, 500} \X {"getReviewItems"})
    \cup ({200, 400, 401, 500} \X {"postReviewItems"})
    \cup ({200, 401, 403, 404, 500} \X {"getReviewItem"})

WorkflowDocs ==
         ({200, 401, 403, 404, 409, 500} \X {"postSend"})
    \cup ({200, 401, 403, 404, 409, 500} \X {"postApprove"})

ChangesDocs ==
         ({200, 401, 403, 404, 409, 500} \X {"postRequestChanges"})
    \cup ({204, 401, 403, 404, 500} \X {"postArchive"})

ActivityDocs ==
         ({200, 401, 403, 404, 500} \X {"getActivity"})
    \cup ({200, 400, 401, 500} \X {"postPresign"})

AttachmentDocs ==
         ({200, 401, 403, 404, 500} \X {"getAttachments"})
    \cup ({201, 400, 401, 403, 404, 500} \X {"postAttachment"})

OneAttachmentDocs == ({204, 401, 403, 404, 500} \X {"deleteAttachment"})

CommentDocs ==
         ({200, 401, 403, 404, 500} \X {"getComments"})
    \cup ({201, 400, 401, 403, 404, 500} \X {"postComment"})

OneCommentDocs == ({204, 401, 403, 404, 500} \X {"deleteComment"})

NotificationDocs ==
         ({200, 401, 403, 404, 500} \X {"getNotifications"})
    \cup ({200, 401, 403, 404, 500} \X {"patchNotificationRead"})

Documented ==
    OrganizationDocs \cup TeamDocs \cup InvitationDocs \cup MemberDocs \cup ProjectDocs
    \cup OneProjectDocs \cup ReviewerDocs \cup OneReviewerDocs \cup ItemDocs \cup WorkflowDocs
    \cup ChangesDocs \cup ActivityDocs \cup AttachmentDocs \cup OneAttachmentDocs \cup CommentDocs
    \cup OneCommentDocs \cup NotificationDocs

LoginDocs == ({200, 400, 401, 500} \X {"login"})

LogoutDocs == ({200, 500} \X {"logout"})

SignUpDocs == ({200, 400, 409, 500} \X {"signup"})

VerificationDocs ==
         ({200, 400, 401, 500} \X {"verify"})
    \cup ({200, 400, 500} \X {"resend"})

OnboardingDocs == ({200, 400, 401, 403, 500} \X {"complete"})

PasswordDocs ==
         ({200, 400, 500} \X {"forgot"})
    \cup ({200, 400, 401, 500} \X {"reset"})
    \cup ({200, 400, 401, 500} \X {"change"})

\* The calls of the pages to /auth.
AuthDocumented == LoginDocs \cup LogoutDocs \cup SignUpDocs \cup VerificationDocs
                  \cup OnboardingDocs \cup PasswordDocs
=============================================================================
