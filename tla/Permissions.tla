---------------------------- MODULE Permissions -----------------------------
(* Roles of the platform's administrators.  The backend checks a permission *)
(* per endpoint (core/rbac.py); the console asks GET /admin/me for the same *)
(* set and shows pages and buttons by it.                                  *)

Roles == {"super", "business", "service", "tech"}

AllPermissions ==
    {"application:read", "application:review", "category:manage", "brand:manage",
     "spu:review", "spu:force_offshelf", "spu:read_all",
     "order:read_all", "order:intervene", "order:add_note",
     "aftersales:read_all", "aftersales:arbitrate", "aftersales:force_refund",
     "aftersales:add_note", "review:moderate", "review_report:handle",
     "notification:read", "audit_log:read", "task:run"}

\* ROLE_PERMISSIONS.
RolePermissions(role) ==
    CASE role = "super" -> AllPermissions
      [] role = "business" ->
           {"application:read", "application:review", "category:manage", "brand:manage",
            "spu:review", "spu:force_offshelf", "spu:read_all", "order:read_all",
            "aftersales:read_all", "review:moderate", "notification:read"}
      [] role = "service" ->
           {"spu:read_all", "order:read_all", "order:intervene", "order:add_note",
            "aftersales:read_all", "aftersales:arbitrate", "aftersales:force_refund",
            "aftersales:add_note", "review:moderate", "review_report:handle",
            "notification:read"}
      [] role = "tech" -> {"audit_log:read", "task:run", "notification:read"}

\* hasPermission of the console, over the list that GET /admin/me returned.
Can(role, permission) == permission \in RolePermissions(role)

\* require_admin_permission of the backend; buyers and shop owners have no role.
Allowed(role, permission) == role = "any" \/ permission \in RolePermissions(role)
=============================================================================
